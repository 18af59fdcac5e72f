-------------------------------- MODULE Attach --------------------------------
(***************************************************************************)
(* The live events of a job the daemon drives, and the streams on which    *)
(* attached clients watch them (src/daemon/attach.rs, the streaming half   *)
(* of src/daemon/server.rs, src/daemon/runner.rs).                         *)
(*                                                                         *)
(* A driver is handed one job, First; the chain it runs may go on with a   *)
(* follow-up job, Child.  Every event goes to the event log of First, then *)
(* to whoever listens.  An event is its number: two events of one job      *)
(* differ at least in their time stamp.                                    *)
(***************************************************************************)
EXTENDS Naturals, Sequences, FiniteSets, SequencesExt

CONSTANTS
    Clients,        \* the connections clients may open
    MaxEvents,      \* bound: how many events the chain emits
    Capacity,       \* ATTACH_CHANNEL_CAPACITY
    MaxReplayed,    \* MAX_REPLAYED_EVENTS
    GuardCapacity,  \* REPLAY_GUARD_CAPACITY
    MaxCrashes      \* bound: how often the daemon dies

\* In the code 256 events are guarded, 500 replayed and 1024 buffered.
ASSUME AttachAssumption ==
    /\ IsFiniteSet(Clients)
    /\ {MaxEvents, MaxCrashes} \subseteq Nat
    /\ {Capacity, MaxReplayed, GuardCapacity} \subseteq Nat \ {0}
    /\ GuardCapacity < MaxReplayed

First == "first"
Child == "child"
Jobs == {First, Child}

\* A connection nobody uses.
NoSession ==
    [at |-> "out", job |-> First, replay |-> FALSE, history |-> <<>>, guard |-> <<>>,
     inbox |-> <<>>, missed |-> FALSE, open |-> FALSE, shown |-> <<>>, base |-> 0,
     overlap |-> 0, left |-> FALSE, stalled |-> FALSE, loaded |-> "none"]

VARIABLES
    driver,     \* what the driver of the chain does
    rec,        \* the persisted status of each job, as far as attaching reads it
    senders,    \* the jobs with a registered control sender
    emitted,    \* how many events the chain has emitted
    childFrom,  \* the number of the first event of Child, 0 before there is one
    log,        \* the events a reader of events.jsonl can parse
    torn,       \* the log ends inside a line
    lost,       \* the events no reader of the log will ever see
    pending,    \* the event that is in the log and not yet broadcast, or 0
    channels,   \* the jobs the broadcaster has a channel for
    shutdown,   \* the shutdown signal
    crashes,    \* how often the daemon has died
    session     \* one connection per client

driverVars == <<driver, rec, senders, emitted, childFrom, log, torn, lost, pending, crashes>>
attachVars == <<driver, rec, senders, emitted, childFrom, log, torn, lost, pending,
                channels, shutdown, crashes, session>>

Current == IF childFrom = 0 THEN First ELSE Child
Owner(e) == IF childFrom # 0 /\ e >= childFrom THEN Child ELSE First

-----------------------------------------------------------------------------
(***************************************************************************)
(* The driver.                                                             *)
(***************************************************************************)

\* A worker registers the control sender of the job it will drive.
Register ==
    /\ driver = "queued"
    /\ ~shutdown
    /\ senders' = {First}
    /\ driver' = "running"
    /\ rec' = [rec EXCEPT ![First] = "running"]
    /\ UNCHANGED <<emitted, childFrom, log, torn, lost, pending, channels, shutdown, crashes,
                   session>>

\* CompositeEventSink::emit starts with the log.  A line that follows a torn one
\* is glued to it, and neither can be parsed.
AppendEvent ==
    /\ driver \in {"running", "ending"}
    /\ pending = 0
    /\ emitted < MaxEvents
    /\ emitted' = emitted + 1
    /\ pending' = emitted + 1
    /\ log' = IF torn THEN log ELSE Append(log, emitted + 1)
    /\ lost' = IF torn THEN lost \union {emitted + 1} ELSE lost
    /\ torn' = FALSE
    /\ UNCHANGED <<driver, rec, senders, childFrom, channels, shutdown, crashes, session>>

\* The write fails, perhaps after part of the line: nothing is broadcast, and the
\* job fails.
AppendFails ==
    /\ driver = "running"
    /\ pending = 0
    /\ emitted < MaxEvents
    /\ emitted' = emitted + 1
    /\ lost' = lost \union {emitted + 1}
    /\ torn' \in {torn, TRUE}
    /\ driver' = "ending"
    /\ rec' = [rec EXCEPT ![Current] = "terminal"]
    /\ UNCHANGED <<senders, childFrom, log, pending, channels, shutdown, crashes, session>>

\* What a subscriber's receiver holds after one more event was sent: a receiver
\* that is Capacity events behind loses the oldest.
Received(s, e) ==
    IF Len(s.inbox) < Capacity
    THEN [s EXCEPT !.inbox = Append(@, e)]
    ELSE [s EXCEPT !.inbox = Append(Tail(@), e), !.missed = TRUE]

\* The streams one event is sent to: the chain's, and the one of the job itself.
StreamsOf(e) == {First, Owner(e)}

\* Mutant: a bounded queue that waits for its slowest reader.
BroadcastWaits ==
    /\ pending # 0
    /\ \A c \in Clients : session[c].open => Len(session[c].inbox) < Capacity
    /\ channels' = channels \union StreamsOf(pending)
    /\ session' = [c \in Clients |->
                      IF session[c].open /\ session[c].job \in StreamsOf(pending)
                      THEN Received(session[c], pending) ELSE session[c]]
    /\ pending' = 0
    /\ UNCHANGED <<driver, rec, senders, emitted, childFrom, log, torn, lost, shutdown, crashes>>

\* BroadcastEventSink::emit.  Sending never waits for a receiver.
Broadcast ==
    /\ pending # 0
    /\ channels' = channels \union StreamsOf(pending)
    /\ session' = [c \in Clients |->
                      IF session[c].open /\ session[c].job \in StreamsOf(pending)
                      THEN Received(session[c], pending) ELSE session[c]]
    /\ pending' = 0
    /\ UNCHANGED <<driver, rec, senders, emitted, childFrom, log, torn, lost, shutdown, crashes>>

\* The chain goes on with its follow-up job.
NextJob ==
    /\ driver = "running"
    /\ pending = 0
    /\ childFrom = 0
    /\ childFrom' = emitted + 1
    /\ rec' = [rec EXCEPT ![First] = "terminal", ![Child] = "running"]
    /\ UNCHANGED <<driver, senders, emitted, log, torn, lost, pending, channels, shutdown,
                   crashes, session>>

\* Mutant: the last job is settled with a status nothing else knows.
SettleUnknown ==
    /\ driver = "running"
    /\ pending = 0
    /\ driver' = "ending"
    /\ rec' = [rec EXCEPT ![Current] = "finished"]
    /\ UNCHANGED <<senders, emitted, childFrom, log, torn, lost, pending, channels, shutdown,
                   crashes, session>>

\* The last job of the chain is settled, or parked until somebody resumes it; the
\* events that say so follow.
Settle ==
    /\ driver = "running"
    /\ pending = 0
    /\ driver' = "ending"
    /\ \E status \in {"terminal", "parked"} : rec' = [rec EXCEPT ![Current] = status]
    /\ UNCHANGED <<senders, emitted, childFrom, log, torn, lost, pending, channels, shutdown,
                   crashes, session>>

\* DaemonJobDriver::drive forgets the channel of the job it was handed: its
\* receivers still read what they have, then see the end.
Release ==
    /\ driver = "ending"
    /\ pending = 0
    /\ driver' = "released"
    /\ channels' = channels \ {First}
    /\ session' = [c \in Clients |->
                      IF session[c].job = First THEN [session[c] EXCEPT !.open = FALSE]
                      ELSE session[c]]
    /\ UNCHANGED <<rec, senders, emitted, childFrom, log, torn, lost, pending, shutdown, crashes>>

\* The worker forgets the sender after the driver returned.
Deregister ==
    /\ driver = "released"
    /\ driver' = "over"
    /\ senders' = {}
    /\ UNCHANGED <<rec, emitted, childFrom, log, torn, lost, pending, channels, shutdown,
                   crashes, session>>

\* The daemon dies, perhaps inside the write of a line, and another one starts
\* that continues First if it was interrupted.  An interrupted Child is continued
\* under its own name, as another chain.
DaemonCrash ==
    /\ crashes < MaxCrashes
    /\ crashes' = crashes + 1
    /\ \/ UNCHANGED <<emitted, torn, lost>>
       \/ /\ driver \in {"running", "ending"} /\ pending = 0 /\ emitted < MaxEvents
          /\ emitted' = emitted + 1
          /\ lost' = lost \union {emitted + 1}
          /\ torn' = TRUE
    /\ driver' = CASE rec[First] = "none" -> "none"
                   [] rec[First] = "terminal" -> "over"
                   [] OTHER -> "queued"
    /\ senders' = {} /\ channels' = {} /\ pending' = 0 /\ shutdown' = FALSE
    /\ session' = [c \in Clients |-> NoSession]
    /\ UNCHANGED <<rec, childFrom, log>>

-----------------------------------------------------------------------------
(***************************************************************************)
(* One stream.                                                             *)
(***************************************************************************)

\* recorded_events: the newest events of the job's own log.  The log of a chain is
\* the one of its first job.
RecordedEvents(job) ==
    LET events == IF job = First THEN log ELSE <<>>
    IN  SubSeq(events, IF Len(events) > MaxReplayed THEN Len(events) - MaxReplayed + 1 ELSE 1,
               Len(events))

\* Mutant: a full guard keeps what it has.
GuardKeepsOldest(guard, e) == IF Len(guard) = GuardCapacity THEN guard ELSE Append(guard, e)

\* ReplayGuard::record keeps the newest GuardCapacity events.
GuardRecord(guard, e) == Append(IF Len(guard) = GuardCapacity THEN Tail(guard) ELSE guard, e)

At(c, step) == session[c].at = step

\* A frame can be written, or fails to be: a client that has stopped reading and
\* has not gone blocks the task that writes to it.
CanWrite(c) == ~session[c].stalled \/ session[c].left

StreamStep(c, s) ==
    /\ session' = [session EXCEPT ![c] = s]
    /\ UNCHANGED <<driverVars, channels, shutdown>>

\* The stream is over, for whatever reason the client is given.
End(s) ==
    [s EXCEPT !.at = "closing", !.open = FALSE, !.inbox = <<>>, !.history = <<>>,
              !.guard = <<>>, !.missed = FALSE, !.left = FALSE, !.stalled = FALSE, !.base = 0]

\* may_attach, first half: is the job driven here?
MayAttach(c) ==
    /\ At(c, "attaching")
    /\ StreamStep(c, [session[c] EXCEPT !.at = IF session[c].job \in senders
                                               THEN "subscribe" ELSE "load"])

\* may_attach, second half: the persisted job, read afterwards.
LoadForAttach(c) ==
    /\ At(c, "load")
    /\ StreamStep(c, [session[c] EXCEPT
                         !.at = CASE rec[session[c].job] = "none" -> "answer"
                                  [] rec[session[c].job] = "terminal" -> "history"
                                  [] OTHER -> "subscribe"])

\* Mutant: the log is read before the subscription is opened.
SubscribeAfterReading(c) ==
    LET s == session[c]
        events == IF s.replay THEN RecordedEvents(s.job) ELSE <<>>
    IN  \/ /\ At(c, "subscribe")
           /\ StreamStep(c, [s EXCEPT !.at = "subscribing", !.history = events])
        \/ /\ At(c, "subscribing")
           /\ channels' = channels \union {s.job}
           /\ session' = [session EXCEPT ![c] =
                             [s EXCEPT !.at = "replay", !.open = TRUE, !.base = emitted]]
           /\ UNCHANGED <<driverVars, shutdown>>

\* The subscription comes first.
Subscribe(c) ==
    LET s == session[c] IN
    /\ At(c, "subscribe")
    /\ channels' = channels \union {s.job}
    /\ session' = [session EXCEPT ![c] =
                      [s EXCEPT !.at = IF s.replay THEN "read" ELSE "live", !.open = TRUE,
                                !.base = IF pending = 0 THEN emitted ELSE emitted - 1]]
    /\ UNCHANGED <<driverVars, shutdown>>

\* Then the log is read.
ReadHistory(c) ==
    LET s == session[c]
        events == RecordedEvents(s.job)
    IN  /\ At(c, "read")
        /\ StreamStep(c, [s EXCEPT !.at = "replay", !.history = events,
                                   !.overlap = Cardinality({e \in ToSet(events) : e > s.base})])

\* One recorded event is remembered and written; a client that has gone ends it.
ReplayEvent(c) ==
    LET s == session[c] IN
    /\ At(c, "replay")
    /\ s.history # <<>>
    /\ CanWrite(c)
    /\ StreamStep(c, IF s.left THEN End(s)
                     ELSE [s EXCEPT !.history = Tail(@), !.guard = GuardRecord(@, Head(s.history)),
                                    !.shown = Append(@, Head(s.history))])

ReplayDone(c) ==
    /\ At(c, "replay")
    /\ session[c].history = <<>>
    /\ StreamStep(c, [session[c] EXCEPT !.at = "live"])

\* ReplayGuard::already_shown
AlreadyShown(guard, e) == Contains(guard, e)

\* The stream has an event for the client; one the replay showed is dropped, once.
StreamEvent(c) ==
    LET s == session[c]
        e == Head(s.inbox)
    IN  /\ At(c, "live")
        /\ s.inbox # <<>> /\ ~s.missed
        /\ AlreadyShown(s.guard, e) \/ CanWrite(c)
        /\ StreamStep(c, IF AlreadyShown(s.guard, e)
                         THEN [s EXCEPT !.inbox = Tail(@),
                                        !.guard = RemoveFirst(@, e)]
                         ELSE IF s.left THEN End(s)
                         ELSE [s EXCEPT !.inbox = Tail(@), !.shown = Append(@, e)])

\* Mutant: the task of a client that fell behind returns at once.
LaggedReturns(c) ==
    /\ At(c, "live")
    /\ session[c].missed
    /\ CanWrite(c)
    /\ StreamStep(c, NoSession)

\* The client fell behind.
StreamLagged(c) ==
    /\ At(c, "live")
    /\ session[c].missed
    /\ CanWrite(c)
    /\ StreamStep(c, End(session[c]))

\* Mutant: a closed channel is polled again.
ClosedIsIgnored(c) ==
    /\ At(c, "live")
    /\ StreamStep(c, session[c])

\* Everything was read and the channel is gone.
StreamClosed(c) ==
    LET s == session[c] IN
    /\ At(c, "live")
    /\ s.inbox = <<>> /\ ~s.missed /\ ~s.open
    /\ CanWrite(c)
    /\ StreamStep(c, End(s))

\* Reading only notices that the client has gone.
ClientDetached(c) ==
    /\ At(c, "live")
    /\ session[c].left
    /\ StreamStep(c, End(session[c]))

StreamShutdown(c) ==
    /\ At(c, "live")
    /\ shutdown
    /\ CanWrite(c)
    /\ StreamStep(c, End(session[c]))

\* replay_terminal_job: no subscription, the history and the end.
ReplayTerminalJob(c) ==
    LET s == session[c] IN
    /\ At(c, "history")
    /\ CanWrite(c)
    /\ StreamStep(c, IF s.left THEN End(s)
                     ELSE End([s EXCEPT !.shown = RecordedEvents(s.job)]))

StreamNext(c) ==
    \/ MayAttach(c) \/ LoadForAttach(c) \/ Subscribe(c) \/ ReadHistory(c)
    \/ ReplayEvent(c) \/ ReplayDone(c) \/ StreamEvent(c) \/ StreamLagged(c)
    \/ StreamClosed(c) \/ ClientDetached(c) \/ StreamShutdown(c) \/ ReplayTerminalJob(c)

DriverNext ==
    \/ Register \/ AppendEvent \/ AppendFails \/ Broadcast \/ NextJob \/ Settle
    \/ Release \/ Deregister

=============================================================================
