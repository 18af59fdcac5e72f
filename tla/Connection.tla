------------------------------ MODULE Connection ------------------------------
(***************************************************************************)
(* The daemon's connections (serve_client and handle of                    *)
(* src/daemon/server.rs): frames that arrive, requests and their answers,  *)
(* clients that say nothing, vanish or stop reading, and the hand-over to  *)
(* an event stream of module Attach.                                       *)
(***************************************************************************)
EXTENDS Attach

VARIABLE connected  \* connected_clients

vars == <<attachVars, connected>>

Init ==
    /\ driver = "none"
    /\ rec = [j \in Jobs |-> "none"]
    /\ senders = {} /\ channels = {}
    /\ emitted = 0 /\ childFrom = 0 /\ pending = 0 /\ crashes = 0 /\ connected = 0
    /\ log = <<>> /\ lost = {}
    /\ torn = FALSE /\ shutdown = FALSE
    /\ session = [c \in Clients |-> NoSession]

\* The steps of a connection that was handed over to a stream.
Streaming == {"attaching", "load", "subscribe", "read", "replay", "live", "history"}

SessionStep(c, s) == StreamStep(c, s) /\ UNCHANGED connected

\* The accept loop spawns one task per connection, until a shutdown.
Accept(c) ==
    /\ At(c, "out")
    /\ ~shutdown
    /\ session' = [session EXCEPT ![c] = [NoSession EXCEPT !.at = "opening"]]
    /\ connected' = connected + 1
    /\ UNCHANGED <<driverVars, channels, shutdown>>

\* Mutant: an idle connection is kept.
KeepIdle(c) == FALSE /\ UNCHANGED vars

\* Nothing arrived within HANDSHAKE_TIMEOUT.  Only the first frame is waited for
\* with a timeout.
HandshakeTimeout(c) ==
    /\ At(c, "opening")
    /\ SessionStep(c, End(session[c]))

Waiting(c) == session[c].at \in {"opening", "ready"}

\* A frame that is too long, cut off or not text, and the end of the stream, end
\* the connection.
ReadFails(c) ==
    /\ Waiting(c)
    /\ SessionStep(c, End(session[c]))

\* A frame that is no request, or speaks another protocol version, is answered
\* with an error, and the client may try again.  PING and STATUS are answered and
\* change nothing.
AnswerOnly(c) ==
    /\ Waiting(c)
    /\ SessionStep(c, [session[c] EXCEPT !.at = "ready"])

\* A submission is refused once a shutdown was requested.
Submit(c) ==
    /\ Waiting(c)
    /\ ~shutdown
    /\ driver = "none"
    /\ driver' = "queued"
    /\ rec' = [rec EXCEPT ![First] = "queued"]
    /\ session' = [session EXCEPT ![c].at = "ready"]
    /\ UNCHANGED <<senders, emitted, childFrom, log, torn, lost, pending, crashes, channels,
                   shutdown, connected>>

\* control(): the persisted job is loaded first ...
ControlLoads(c) ==
    /\ Waiting(c)
    /\ \E job \in Jobs :
          SessionStep(c, [session[c] EXCEPT !.at = "control", !.job = job, !.loaded = rec[job]])

\* Mutant: the record decides before the sender is looked up.
ControlAnswerByRecord(job, loaded) ==
    CASE loaded = "none" -> "unknown"
      [] loaded \in {"terminal", "queued"} -> loaded
      [] OTHER -> IF job \in senders THEN "delivered" ELSE "not_owned"

\* What a control request is answered, from the record that was loaded and the
\* sender that is registered now.
ControlAnswer(job, loaded) ==
    IF job \in senders THEN "delivered"
    ELSE CASE loaded = "none" -> "unknown"
           [] loaded \in {"terminal", "queued"} -> loaded
           [] OTHER -> "not_owned"

\* ... then the sender is looked up, and the answer given; the command itself goes
\* through the job's control channel (module Job).
ControlAnswers(c) ==
    /\ At(c, "control")
    /\ SessionStep(c, [session[c] EXCEPT !.at = "ready", !.job = First, !.loaded = "none"])

Attach(c) ==
    /\ Waiting(c)
    /\ \E job \in Jobs, replay \in BOOLEAN :
          SessionStep(c, [session[c] EXCEPT !.at = "attaching", !.job = job, !.replay = replay])

\* A job nobody ever persisted is refused, and the connection goes on.
RefuseAttach(c) ==
    /\ At(c, "answer")
    /\ SessionStep(c, [session[c] EXCEPT !.at = "ready"])

\* The answer cannot be written: the client stopped reading.
AnswerFails(c) ==
    /\ session[c].at \in {"subscribe", "history", "answer"}
    /\ session[c].left
    /\ SessionStep(c, End(session[c]))

\* The first request decides the reason; the connection that asked is closed.
RequestShutdown(c) ==
    /\ Waiting(c)
    /\ shutdown' = TRUE
    /\ session' = [session EXCEPT ![c] = End(session[c])]
    /\ UNCHANGED <<driverVars, channels, connected>>

\* The client closes its side (Ctrl+C of "lya attach"), or its process dies.
ClientLeaves(c) ==
    /\ session[c].at \in Streaming
    /\ ~session[c].left
    /\ SessionStep(c, [session[c] EXCEPT !.left = TRUE])

\* The client stops reading without going away.
ClientStalls(c) ==
    /\ session[c].at \in Streaming
    /\ ~session[c].stalled
    /\ SessionStep(c, [session[c] EXCEPT !.stalled = TRUE])

\* Whatever ended it, the connection is counted off and forgotten.
FinishSession(c) ==
    /\ At(c, "closing")
    /\ session' = [session EXCEPT ![c] = NoSession]
    /\ connected' = connected - 1
    /\ UNCHANGED <<driverVars, channels, shutdown>>

\* The daemon has no more work after a shutdown: its process ends, and with it
\* whatever connections are left.
DaemonExits ==
    /\ shutdown
    /\ driver \in {"none", "queued", "over"}
    /\ session' = [c \in Clients |-> NoSession]
    /\ channels' = {}
    /\ connected' = 0
    /\ UNCHANGED <<driverVars, shutdown>>

ServerNext(c) ==
    \/ StreamNext(c) /\ UNCHANGED connected
    \/ ControlAnswers(c) \/ RefuseAttach(c) \/ AnswerFails(c) \/ FinishSession(c)

ClientNext(c) ==
    \/ Accept(c) \/ ReadFails(c) \/ AnswerOnly(c) \/ Submit(c) \/ ControlLoads(c) \/ Attach(c)
    \/ RequestShutdown(c) \/ ClientLeaves(c) \/ ClientStalls(c)

Next ==
    \/ DriverNext /\ UNCHANGED connected
    \/ DaemonCrash /\ connected' = 0
    \/ DaemonExits
    \/ \E c \in Clients : ServerNext(c) \/ ClientNext(c) \/ HandshakeTimeout(c)

\* The driver and the daemon's tasks go on, the timeout expires; clients need not
\* do anything.
Spec ==
    /\ Init /\ [][Next]_vars
    /\ WF_vars(DriverNext /\ UNCHANGED connected)
    /\ \A c \in Clients : WF_vars(ServerNext(c)) /\ WF_vars(HandshakeTimeout(c))

-----------------------------------------------------------------------------
(***************************************************************************)
(* Properties.                                                             *)
(***************************************************************************)

TypeOK ==
    /\ driver \in {"none", "queued", "running", "ending", "released", "over"}
    /\ rec \in [Jobs -> {"none", "queued", "running", "parked", "terminal"}]
    /\ senders \subseteq {First}
    /\ channels \subseteq Jobs
    /\ {emitted, pending, Len(log)} \subseteq 0..MaxEvents
    /\ childFrom \in 0..(MaxEvents + 1)
    /\ lost \subseteq 1..MaxEvents
    /\ torn \in BOOLEAN /\ shutdown \in BOOLEAN
    /\ connected \in 0..Cardinality(Clients)
    /\ DOMAIN session = Clients

\* The join of replay and live stream is seamless (attach.rs): a client sees no
\* event of a job twice, and sees them in the order they were emitted, unless more
\* events than the guard remembers were logged between the subscription and the
\* read of the log.  Only an event whose line in the log is broken comes late.
EventsAreShownOnce ==
    \A c \in Clients :
        LET shown == session[c].shown IN
        session[c].overlap <= GuardCapacity =>
            \A i, k \in DOMAIN shown :
                i < k => /\ shown[i] # shown[k]
                         /\ shown[i] < shown[k] \/ shown[k] \in lost

\* Nothing that happens during the read is missed (attach.rs): between the first
\* and the last event a client was shown there is no other event of that job,
\* except one whose line in the log is broken, as long as the guard is not outrun.
\* A client that fell behind is cut off before it could see the gap.
NothingIsSkipped ==
    \A c \in Clients :
        LET shown == ToSet(session[c].shown) IN
        session[c].overlap <= GuardCapacity =>
            \A e \in 1..emitted :
                /\ session[c].job = First \/ Owner(e) = Child
                /\ \E a \in shown : a < e
                /\ \E b \in shown : b > e
                => e \in shown \union lost

\* The count of connected clients that the status reports is the number of
\* connections, on whatever path each of them ended.
ConnectionsAreCounted == connected = Cardinality({c \in Clients : ~At(c, "out")})

\* What a viewer is shown is the job's history without gaps, repetitions or
\* disorder, and the daemon knows its connections.
StreamIsExact == TypeOK /\ ConnectionsAreCounted /\ EventsAreShownOnce /\ NothingIsSkipped

\* A chain that runs can be controlled by the name it was started with, whatever
\* the record that was loaded a moment before says (control).
RunningChainIsControllable ==
    \A c \in Clients :
        At(c, "control") /\ session[c].job = First /\ driver = "running"
            => ControlAnswer(session[c].job, session[c].loaded) = "delivered"

\* A job that is over ends the streams of its viewers: whoever was subscribed when
\* its channel was released is told, unless it stopped reading.
EndOfJobEndsStreams ==
    \A c \in Clients :
        (At(c, "live") /\ session[c].job = First /\ ~session[c].open)
            ~> (~At(c, "live") \/ session[c].stalled)

\* A connection that says nothing is not kept open.
SilentConnectionsEnd == \A c \in Clients : At(c, "opening") ~> ~At(c, "opening")

\* No connection stays open for nothing.
ConnectionsEnd == EndOfJobEndsStreams /\ SilentConnectionsEnd

\* A job never waits for a viewer (attach.rs): a driver that runs gets to its end,
\* whether or not those who watch it read, leave or stall.
JobsNeverWaitForViewers == (driver = "running") ~> (driver \in {"over", "queued"})

=============================================================================
