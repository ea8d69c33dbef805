--------------------------- MODULE MigrateSocket ---------------------------
(***************************************************************************)
(* The migrate socket of src/migrate_socket.go around the migration of     *)
(* module Migrate.  Processes that share a database and a socket path, such *)
(* as the old and the new instance of a deployment, each call Serve and     *)
(* Close once, in goroutines of their own; every request of the command     *)
(* line tool goes to the process that owns the path at that moment.  Of the *)
(* processes outside Servers only what they do to the path is modelled.     *)
(***************************************************************************)
EXTENDS Migrate

CONSTANTS
  Servers,   \* the processes that handle requests
  Rival,     \* any other process given the same path
  NoServer

ASSUME SocketAssumption == Servers \cap {Rival, NoServer} = {} /\ Rival # NoServer

VARIABLES
  file,     \* whose listener the socket file leads to
  serve,    \* how far each Serve has come
  closing,  \* how far each Close has come
  shut,     \* http.Server.Close was called on this server
  rival,    \* a rival has been at the path
  early,    \* Close came before Serve had set ms.server
  via       \* the server handling the request of each client

socketVars == <<file, serve, closing, shut, early, rival>>
allVars == <<vars, socketVars, via>>

SocketInit ==
  /\ Init
  /\ file = NoServer
  /\ serve = [s \in Servers |-> "not called"]
  /\ closing = [s \in Servers |-> "not called"]
  /\ shut = [s \in Servers |-> FALSE] /\ early = shut
  /\ rival = FALSE
  /\ via = [c \in Clients |-> NoServer]

\* Serve replaces the socket file and listens on it.
\* Variation: the old file is removed after listening.
ListenThenRemove(s) ==
  /\ serve[s] = "not called"
  /\ serve' = [serve EXCEPT ![s] = "listening"]
  /\ file' = NoServer
  /\ UNCHANGED <<vars, closing, shut, early, rival, via>>
Listen(s) ==
  /\ serve[s] = "not called"
  /\ serve' = [serve EXCEPT ![s] = "listening"]
  /\ file' = s
  /\ UNCHANGED <<vars, closing, shut, early, rival, via>>

\* ms.server is set: from here on Close finds it.
SetServer(s) ==
  /\ serve[s] = "listening"
  /\ serve' = [serve EXCEPT ![s] = "set"]
  /\ UNCHANGED <<vars, file, closing, shut, early, rival, via>>

\* server.Serve: it accepts clients, unless it was closed already; then the listener
\* is closed, which unlinks whatever is at the path.
AcceptClients(s) ==
  /\ serve[s] = "set"
  /\ IF shut[s]
     THEN serve' = [serve EXCEPT ![s] = "returned"] /\ file' = NoServer
     ELSE serve' = [serve EXCEPT ![s] = "serving"] /\ UNCHANGED file
  /\ UNCHANGED <<vars, closing, shut, early, rival, via>>

ServeReturns(s) ==
  /\ serve[s] = "serving" /\ shut[s]
  /\ serve' = [serve EXCEPT ![s] = "returned"]
  /\ UNCHANGED <<vars, file, closing, shut, early, rival, via>>

\* Close, first half: http.Server.Close if ms.server is set, which drops every
\* connection and, once serving, closes the listener.
\* Variation: only a server that accepts clients is closed.
ServerSetServing(s) == serve[s] = "serving"
ServerSet(s) == serve[s] \in {"set", "serving"}
CloseServer(s) ==
  /\ closing[s] = "not called" /\ faults = 0
  /\ closing' = [closing EXCEPT ![s] = "removing"]
  /\ shut' = [shut EXCEPT ![s] = ServerSet(s)]
  /\ early' = [early EXCEPT ![s] = serve[s] \in {"not called", "listening"}]
  /\ file' = IF serve[s] = "serving" THEN NoServer ELSE file
  /\ UNCHANGED <<vars, serve, rival, via>>

\* Close, second half: os.Remove of the path.
RemoveFile(s) ==
  /\ closing[s] = "removing"
  /\ closing' = [closing EXCEPT ![s] = "returned"]
  /\ file' = NoServer
  /\ UNCHANGED <<vars, serve, shut, early, rival, via>>

\* Another process calls Serve or Close for the same path.
RivalServes ==
  /\ ~rival /\ rival' = TRUE /\ file' = Rival
  /\ UNCHANGED <<vars, serve, closing, shut, early, via>>

RivalCloses ==
  /\ rival /\ file # NoServer /\ file' = NoServer
  /\ UNCHANGED <<vars, serve, closing, shut, early, rival, via>>

\* A request finds a server accepting at the path, and its handler starts.
Accepting(s) == s \in Servers /\ serve[s] = "serving" /\ ~shut[s]
Request(c) ==
  /\ Accepting(file)
  /\ Begin(c) \/ Ask(c) \/ Confirm(c)
  /\ via' = [via EXCEPT ![c] = file]
  /\ UNCHANGED socketVars

\* It finds nothing there: the tool ends with "cannot reach the migrate socket".
CannotReach(c) ==
  /\ phase[c] \in {"asking", "confirming"} /\ ~Accepting(file)
  /\ EndEmpty(c, "failed")
  /\ UNCHANGED <<faults, socketVars, via>>

\* What needs no connection: the handlers at work, the user declining, and a process
\* creating the tables by itself.  (Bound: a server closes, or statements fail.)
Handler(c) ==
  /\ \/ Abort(c) \/ ReadColumns(c) \/ ShowPlan(c) \/ StartApply(c)
     \/ Exec(c) \/ Record(c) \/ Commit(c) \/ Refused(c) \/ CreateTables(c)
     \/ Fails(c) /\ (\A s \in Servers : closing[s] = "not called")
  /\ UNCHANGED <<socketVars, via>>

\* The server was closed under a handler: the context of the request ends and the next
\* statement fails with it.
CutOff(c) ==
  /\ via[c] # NoServer /\ shut[via[c]] /\ migrates[c]
  /\ \/ phase[c] \in Reading /\ EndEmpty(c, "failed")
     \/ /\ phase[c] \in Migrating
        /\ UNCHANGED <<db, ran, landed, unacked>> /\ GiveUp(c, phase[c] = "applying")
  /\ UNCHANGED <<faults, socketVars, via>>

SocketNext ==
  \/ \E s \in Servers : \/ Listen(s) \/ SetServer(s) \/ AcceptClients(s) \/ ServeReturns(s)
                        \/ CloseServer(s) \/ RemoveFile(s)
  \/ RivalServes \/ RivalCloses
  \/ \E c \in Clients : Request(c) \/ CannotReach(c) \/ Handler(c) \/ CutOff(c)

SocketSpec == SocketInit /\ [][SocketNext]_allVars

------------------------------------------------------------------------------
\* A server whose Close has returned accepts nobody, except where Close came so
\* early that Serve had not set ms.server yet: that Serve never returns.
ClosedMeansStopped ==
  \A s \in Servers : closing[s] = "returned" /\ Accepting(s) => early[s]

\* A server that accepts clients and lost its path lost it to itself, closing early,
\* or to another process: one that served the same path after it, or that closed
\* after it, for both remove the file by name.
PathLostToAnother ==
  \A s \in Servers : Accepting(s) /\ file # s =>
     rival \/ early[s] \/ \E o \in Servers \ {s} : file = o \/ closing[o] # "not called"
==============================================================================
