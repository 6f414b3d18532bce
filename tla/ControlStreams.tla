---------------------------- MODULE ControlStreams ----------------------------
(***************************************************************************)
(* Control vNext sessions and the event streams: accept loops that take    *)
(* sessions out of a shared budget, the session loop (requests, its frame  *)
(* writer, hang-up, deadlines, shutdown), and the stream manager, whose    *)
(* queues packet and DNS threads fill while the subscriber drains them.    *)
(*                                                                         *)
(* An event is its number; frames are what a client reads.  A session owns *)
(* at most one stream, so stop and detach, which visit the three streams   *)
(* under three mutexes, take effect in one step; so does resetAll, as a    *)
(* session looks at its own stream only.  Commands other than STREAM.* and *)
(* RESETALL only answer here.                                              *)
(***************************************************************************)
EXTENDS Integers, Sequences, FiniteSets, SequencesExt

CONSTANTS
  Sessions, Acceptors, None,
  Queued,        \* the streams with a ring, of "dns" and "pkt"
  MaxRing, MaxPending,   \* Caps
  MaxQueued,     \* kMaxQueuedFrames
  Limit,         \* kControlSessionBudget
  MinSizes,      \* args.minSize
  MaxEvents,     \* events are numbered up to it
  Scenes         \* bounds of a behaviour: how many clients, commands, events,
                 \* suppressed events and signals, and the streams asked for

Types == Queued \cup {"activity"}

ASSUME ControlStreamsAssumption ==
  /\ IsFiniteSet(Sessions) /\ IsFiniteSet(Acceptors) /\ None \notin Sessions \cup Types
  /\ Queued \subseteq {"dns", "pkt"}
  /\ {MaxRing, MaxPending, MaxQueued, Limit, MaxEvents} \subseteq Nat
  /\ MinSizes \subseteq Nat
  /\ Scenes \subseteq [clients : Nat, commands : Nat, events : 0..MaxEvents, suppressed : Nat, signals : Nat,
                       streams : SUBSET (Queued \cup {"activity"})]

VARIABLES
  sub,         \* each stream: its subscriber, or None
  ring, pending,   \* each stream: the last events, and those to send
  dropped, suppressed,   \* each stream: the counters the subscriber takes
  se,          \* each session: its place and locals
  active,      \* g_activeControlSessions
  acc,         \* each accept loop: its place, and the count it loaded
  down,        \* g_shutdownRequestedFast
  out,         \* history: the frames each client read
  counting,    \* streams a thread found subscribed, to count a suppressed event
  tally,       \* history: what became of the events offered to a subscriber
  left         \* what is left of the scene's bounds

streamVars == <<sub, ring, pending, dropped, suppressed>>
vars == <<streamVars, se, active, acc, down, out, counting, tally, left>>

Frame(kind, type, n) == [kind |-> kind, type |-> type, n |-> n]
Gone == [pc |-> "gone"]
NewSession ==
  [pc |-> "top", stream |-> None, frames |-> << >>, current |-> FALSE, dropped |-> 0, suppressed |-> 0,
   answer |-> "none"]
NoTally == [offered |-> 0, popped |-> 0, reported |-> 0, stolen |-> FALSE]

Init ==
  /\ sub = [t \in Types |-> None]
  /\ ring = [t \in Types |-> << >>]
  /\ pending = [t \in Types |-> << >>]
  /\ dropped = [t \in Types |-> 0]
  /\ suppressed = [t \in Types |-> 0]
  /\ se = [s \in Sessions |-> Gone]
  /\ active = 0
  /\ acc = [a \in Acceptors |-> [pc |-> "accept", cur |-> 0]]
  /\ down = FALSE
  /\ out = [s \in Sessions |-> << >>]
  /\ counting = {}
  /\ tally = [t \in Types |-> NoTally]
  /\ left \in Scenes

-----------------------------------------------------------------------------
(* The accept loops and the session budget.                                *)

\* A client connects; snortTryAcquireSessionBudget loads the count.
Accept(a) ==
  /\ acc[a].pc = "accept"
  /\ ~down
  /\ left.clients > 0
  /\ left' = [left EXCEPT !.clients = @ - 1]
  /\ acc' = [acc EXCEPT ![a] = [pc |-> "cas", cur |-> active]]
  /\ UNCHANGED <<streamVars, se, active, down, out, tally, counting>>

\* Mutant of CasBudget: the count is stored without comparing it.
CasBudgetBlind(a) ==
  /\ acc[a].pc = "cas"
  /\ acc[a].cur < Limit
  /\ active' = acc[a].cur + 1
  /\ acc' = [acc EXCEPT ![a] = [pc |-> "spawn", cur |-> 0]]
  /\ UNCHANGED <<streamVars, se, down, out, tally, left, counting>>

\* The exchange succeeds, or loads the count again; a full budget refuses.
CasBudget(a) ==
  /\ acc[a].pc = "cas"
  /\ IF acc[a].cur >= Limit
     THEN acc' = [acc EXCEPT ![a] = [pc |-> "accept", cur |-> 0]] /\ UNCHANGED active
     ELSE IF acc[a].cur = active
     THEN acc' = [acc EXCEPT ![a] = [pc |-> "spawn", cur |-> 0]] /\ active' = active + 1
     ELSE acc' = [acc EXCEPT ![a].cur = active] /\ UNCHANGED active
  /\ UNCHANGED <<streamVars, se, down, out, tally, left, counting>>

\* The token moves into the session's thread.
Spawn(a, s) ==
  /\ acc[a].pc = "spawn"
  /\ se[s].pc = "gone"
  /\ acc' = [acc EXCEPT ![a] = [pc |-> "accept", cur |-> 0]]
  /\ se' = [se EXCEPT ![s] = NewSession]
  /\ out' = [out EXCEPT ![s] = << >>]
  /\ UNCHANGED <<streamVars, active, down, tally, left, counting>>

\* A signal, or a fatal error.
snortRequestShutdown ==
  /\ left.signals > 0
  /\ left' = [left EXCEPT !.signals = @ - 1]
  /\ down' = TRUE
  /\ UNCHANGED <<streamVars, se, active, acc, out, tally, counting>>

-----------------------------------------------------------------------------
(* The stream manager.                                                     *)

LastN(q, n) == IF Len(q) <= n THEN q ELSE SubSeq(q, Len(q) - n + 1, Len(q))

pushRing(q, n) == LastN(Append(q, n), MaxRing)

\* The oldest event falls out of a full queue, and is counted.
pushPending(q, d, n) ==
  [q |-> LastN(Append(q, n), MaxPending), d |-> d + IF Len(q) >= MaxPending THEN 1 ELSE 0]

\* The union of the last minSize events and of those in the horizon; horizon is
\* the index of the first such event, any index, or past the end.
replayStartIndexForUnion(q, horizon, minSize) ==
  LET n == Len(q)
      minSizeStart == IF minSize >= n THEN 1 ELSE n - minSize + 1
  IN IF minSizeStart < horizon THEN minSizeStart ELSE horizon

\* pushPending of each event in turn into an empty queue: the last ones stay,
\* the others are counted.
Replay(q) ==
  LET kept == LastN(q, MaxPending) IN [q |-> kept, d |-> Len(q) - Len(kept)]

canStart(s, t) == sub[t] \in {None, s}

clampMinSize(minSize) == IF minSize <= MaxRing THEN minSize ELSE MaxRing

start(s, t, horizon, minSize) ==
  LET size == clampMinSize(minSize)
      kept == SubSeq(ring[t], replayStartIndexForUnion(ring[t], horizon, size), Len(ring[t]))
      r == Replay(kept)
  IN /\ sub' = [sub EXCEPT ![t] = s]
     /\ pending' = [pending EXCEPT ![t] = r.q]
     /\ dropped' = [dropped EXCEPT ![t] = r.d]
     /\ suppressed' = [suppressed EXCEPT ![t] = 0]
     /\ tally' = [tally EXCEPT ![t] = [NoTally EXCEPT !.offered = Len(kept)]]
     /\ UNCHANGED ring

\* The activity stream starts with the state of the moment.
startActivity(s) ==
  /\ sub' = [sub EXCEPT !["activity"] = s]
  /\ pending' = [pending EXCEPT !["activity"] = <<MaxEvents - left.events>>]
  /\ UNCHANGED <<ring, dropped, suppressed, tally>>

\* Streams a session lets go of; the ring is kept or not.
Release(mine, keepRing) ==
  /\ sub' = [t \in Types |-> IF t \in mine THEN None ELSE sub[t]]
  /\ pending' = [t \in Types |-> IF t \in mine THEN << >> ELSE pending[t]]
  /\ dropped' = [t \in Types |-> IF t \in mine THEN 0 ELSE dropped[t]]
  /\ suppressed' = [t \in Types |-> IF t \in mine THEN 0 ELSE suppressed[t]]
  /\ ring' = [t \in Types |-> IF t \in mine /\ ~keepRing THEN << >> ELSE ring[t]]
  /\ UNCHANGED tally

Mine(s) == {t \in Types : sub[t] = s}

\* Mutant of stop: the ring survives, as it does when a session is lost.
stopKeepsRing(s) == Release(Mine(s), TRUE)

stop(s) == Release(Mine(s), FALSE)
detach(s) == Release(Mine(s), TRUE)
resetAll == Release(Types, FALSE)

\* Mutant of ownsSubscription: somebody subscribes to the stream.
ownsAnySubscription(s, t) == sub[t] # None

ownsSubscription(s, t) == sub[t] = s

\* Mutant of observeTracked: what falls out of the queue is not counted.
observeTrackedUncounted(t) ==
  /\ t \in Queued
  /\ left.events > 0
  /\ left' = [left EXCEPT !.events = @ - 1]
  /\ LET n == MaxEvents - left.events + 1
     IN /\ ring' = [ring EXCEPT ![t] = pushRing(@, n)]
        /\ IF sub[t] = None THEN UNCHANGED <<pending, tally>>
           ELSE /\ pending' = [pending EXCEPT ![t] = pushPending(@, dropped[t], n).q]
                /\ tally' = [tally EXCEPT ![t].offered = @ + 1]
  /\ UNCHANGED <<sub, dropped, suppressed, se, active, acc, down, out, counting>>

\* A packet or DNS thread: a tracked event ...
observeTracked(t) ==
  /\ t \in Queued
  /\ left.events > 0
  /\ left' = [left EXCEPT !.events = @ - 1]
  /\ LET n == MaxEvents - left.events + 1
         p == pushPending(pending[t], dropped[t], n)
     IN /\ ring' = [ring EXCEPT ![t] = pushRing(@, n)]
        /\ IF sub[t] = None THEN UNCHANGED <<pending, dropped, tally>>
           ELSE /\ pending' = [pending EXCEPT ![t] = p.q]
                /\ dropped' = [dropped EXCEPT ![t] = p.d]
                /\ tally' = [tally EXCEPT ![t].offered = @ + 1]
  /\ UNCHANGED <<sub, suppressed, se, active, acc, down, out, counting>>

\* ... or one of an app that is not tracked, which is counted after subscribed
\* was read without the mutex.
observeSuppressed(t) ==
  /\ t \in Queued \ counting
  /\ sub[t] # None
  /\ left.suppressed > 0
  /\ left' = [left EXCEPT !.suppressed = @ - 1]
  /\ counting' = counting \cup {t}
  /\ UNCHANGED <<streamVars, se, active, acc, down, out, tally>>

CountSuppressed(t) ==
  /\ t \in counting
  /\ counting' = counting \ {t}
  /\ suppressed' = [suppressed EXCEPT ![t] = @ + 1]
  /\ UNCHANGED <<sub, ring, pending, dropped, se, active, acc, down, out, tally, left>>

\* CONFIG.SET block.enabled; drops of the activity stream are not counted.
observeBlockEnabled ==
  /\ sub["activity"] # None
  /\ left.events > 0
  /\ left' = [left EXCEPT !.events = @ - 1]
  /\ pending' = [pending EXCEPT !["activity"] = LastN(Append(@, MaxEvents - left.events + 1), MaxPending)]
  /\ UNCHANGED <<sub, ring, dropped, suppressed, se, active, acc, down, out, tally, counting>>

-----------------------------------------------------------------------------
(* A session.                                                              *)

At(s, pc) == se[s].pc = pc
Stream(s) == se[s].stream

Request(s) ==
  /\ At(s, "requests")
  /\ left.commands > 0
  /\ left' = [left EXCEPT !.commands = @ - 1]
  /\ UNCHANGED <<active, acc, down, out, counting>>

Answer(s, answer) == se' = [se EXCEPT ![s].pc = "respond", ![s].answer = answer]

\* STREAM.START in stream mode, or of a taken stream, is a conflict.
StreamStart(s, t) ==
  /\ t \in left.streams
  /\ Request(s)
  /\ IF Stream(s) # None \/ ~canStart(s, t) THEN Answer(s, "error") /\ UNCHANGED <<streamVars, tally>>
     ELSE /\ IF t = "activity" THEN startActivity(s)
             ELSE \E m \in MinSizes, h \in 1..(Len(ring[t]) + 1) : start(s, t, h, m)
          /\ se' = [se EXCEPT ![s].pc = "respond", ![s].answer = "start", ![s].stream = t,
                              ![s].dropped = 0, ![s].suppressed = 0]

\* FrameWriter::clearQueue: the frame that is being written stays.
clearQueue(x) == [x EXCEPT !.frames = IF x.current THEN SubSeq(@, 1, 1) ELSE << >>]

StreamStop(s) ==
  /\ Request(s)
  /\ IF Stream(s) = None THEN Answer(s, "stop") /\ UNCHANGED <<streamVars, tally>>
     ELSE /\ stop(s)
          /\ se' = [se EXCEPT ![s] = [clearQueue(@) EXCEPT !.pc = "respond", !.answer = "stop",
                                        !.stream = None, !.dropped = 0, !.suppressed = 0]]

\* Every other command is refused in stream mode.
OtherCommand(s) ==
  /\ Request(s)
  /\ \E answer \in IF Stream(s) = None THEN {"ok", "quit"} ELSE {"error"} : Answer(s, answer)
  /\ UNCHANGED <<streamVars, tally>>

\* RESETALL and CHECKPOINT.RESTORE: no STREAM.START, packet or DNS decision is
\* under way (mutexListeners).
ResetCommand(s) ==
  /\ Request(s)
  /\ Stream(s) = None
  /\ counting = {}
  /\ Answer(s, "ok")
  /\ resetAll

\* The response is written after everything that is queued (flushBlocking).
Respond(s) ==
  /\ At(s, "respond")
  /\ out' = [out EXCEPT ![s] = @ \o se[s].frames \o <<Frame(se[s].answer, Stream(s), 0)>>]
  /\ se' = [se EXCEPT ![s].pc = CASE se[s].answer = "start" -> "started"
                                  [] se[s].answer = "quit" -> "end"
                                  [] OTHER -> "requests",
                      ![s].frames = << >>, ![s].current = FALSE]
  /\ UNCHANGED <<streamVars, active, acc, down, tally, left, counting>>

\* ... then the started notice.
Started(s) ==
  /\ At(s, "started")
  /\ out' = [out EXCEPT ![s] = Append(@, Frame("started", Stream(s), 0))]
  /\ se' = [se EXCEPT ![s].pc = "requests"]
  /\ UNCHANGED <<streamVars, active, acc, down, tally, left, counting>>

\* No request is left: a session whose stream was reset ends.
Check(s) ==
  /\ At(s, "requests")
  /\ se' = [se EXCEPT ![s].pc =
       CASE Stream(s) = None -> "flush"
         [] Stream(s) # None /\ ~ownsSubscription(s, Stream(s)) -> "end"
         [] OTHER -> IF Stream(s) = "activity" THEN "drain" ELSE "take"]
  /\ UNCHANGED <<streamVars, active, acc, down, out, tally, left, counting>>

\* The counters are taken without asking who owns the stream; once a second
\* (due) they go out in notices.
Take(s, due) ==
  /\ At(s, "take")
  /\ LET t == Stream(s)
         d == se[s].dropped + dropped[t]
         u == se[s].suppressed + suppressed[t]
         notices == (IF due /\ u > 0 THEN <<Frame("suppressed", t, u)>> ELSE << >>)
                      \o (IF due /\ d > 0 THEN <<Frame("dropped", t, d)>> ELSE << >>)
     IN /\ dropped' = [dropped EXCEPT ![t] = 0]
        /\ suppressed' = [suppressed EXCEPT ![t] = 0]
        /\ se' = [se EXCEPT ![s].pc = "drain", ![s].frames = @ \o notices,
                            ![s].dropped = IF due THEN 0 ELSE d, ![s].suppressed = IF due THEN 0 ELSE u]
        /\ tally' = [tally EXCEPT ![t] =
             IF sub[t] = s THEN [@ EXCEPT !.reported = tally[t].reported + IF due THEN d ELSE 0]
             ELSE [@ EXCEPT !.stolen = tally[t].stolen \/ dropped[t] > 0]]
  /\ UNCHANGED <<sub, ring, pending, active, acc, down, out, left, counting>>

\* pop*Pending, while the writer has room.
Drain(s) ==
  /\ At(s, "drain")
  /\ LET t == Stream(s)
     IN IF sub[t] = s /\ pending[t] # << >> /\ Len(se[s].frames) < MaxQueued
        THEN /\ se' = [se EXCEPT ![s].frames = Append(@, Frame("event", t, Head(pending[t])))]
             /\ pending' = [pending EXCEPT ![t] = Tail(@)]
             /\ tally' = [tally EXCEPT ![t].popped = @ + 1]
        ELSE se' = [se EXCEPT ![s].pc = "flush"] /\ UNCHANGED <<pending, tally>>
  /\ UNCHANGED <<sub, ring, dropped, suppressed, active, acc, down, out, left, counting>>

\* flushOnce writes k frames, and keeps the next one as the current one.
Flush(s, k) ==
  /\ At(s, "flush")
  /\ k \in 0..Len(se[s].frames)
  /\ out' = [out EXCEPT ![s] = @ \o SubSeq(se[s].frames, 1, k)]
  /\ se' = [se EXCEPT ![s].pc = "top", ![s].frames = SubSeq(@, k + 1, Len(@)),
                      ![s].current = k < Len(se[s].frames)]
  /\ UNCHANGED <<streamVars, active, acc, down, tally, left, counting>>

Ends(s) ==
  /\ se' = [se EXCEPT ![s].pc = "end"]
  /\ UNCHANGED <<streamVars, active, acc, down, out, counting, tally, left>>

\* The client does not read its response in time, a frame is longer than the
\* limit, a queued frame waits too long, or the poll after a flush finds an
\* error, a hang-up, a frame that cannot be decoded or an idle client.
flushBlockingFails(s) == se[s].pc \in {"respond", "started"} /\ Ends(s)
enqueueDocFails(s) == At(s, "drain") /\ Ends(s)
DeadlineMissed(s) == At(s, "flush") /\ se[s].frames # << >> /\ Ends(s)
PollEnds(s) == At(s, "flush") /\ Ends(s)

\* The top of the loop; requests that were read together see no shutdown.
Loop(s) ==
  /\ At(s, "top")
  /\ se' = [se EXCEPT ![s].pc = IF down THEN "end" ELSE "requests"]
  /\ UNCHANGED <<streamVars, active, acc, down, out, counting, tally, left>>

\* run returns: StreamDetachGuard, then the socket is closed.
End(s) ==
  /\ At(s, "end")
  /\ detach(s)
  /\ se' = [se EXCEPT ![s] = [pc |-> "release"]]
  /\ UNCHANGED <<active, acc, down, out, left, counting>>

\* The thread ends and with it the budget token.
ReleaseBudget(s) ==
  /\ At(s, "release")
  /\ active' = active - 1
  /\ se' = [se EXCEPT ![s] = Gone]
  /\ out' = [out EXCEPT ![s] = << >>]
  /\ UNCHANGED <<streamVars, acc, down, tally, left, counting>>

\* What the thread of a session does by itself.
Work(s) ==
  \/ Respond(s) \/ Started(s) \/ Check(s) \/ (\E due \in BOOLEAN : Take(s, due)) \/ Drain(s)
  \/ (\E k \in 0..(MaxQueued + 2) : Flush(s, k)) \/ Loop(s) \/ End(s) \/ ReleaseBudget(s)

Client(s) ==
  \/ (\E t \in Types : StreamStart(s, t)) \/ StreamStop(s) \/ OtherCommand(s) \/ ResetCommand(s)
  \/ flushBlockingFails(s) \/ enqueueDocFails(s) \/ DeadlineMissed(s) \/ PollEnds(s)

Next ==
  \/ \E a \in Acceptors : Accept(a) \/ CasBudget(a) \/ \E s \in Sessions : Spawn(a, s)
  \/ snortRequestShutdown
  \/ \E t \in Queued : observeTracked(t) \/ observeSuppressed(t) \/ CountSuppressed(t)
  \/ observeBlockEnabled
  \/ \E s \in Sessions : Work(s) \/ Client(s)

Spec == Init /\ [][Next]_vars

\* Session threads run.
FairSpec == Spec /\ \A s \in Sessions : WF_vars(Work(s))

-----------------------------------------------------------------------------
Frames == [kind : {"start", "stop", "error", "ok", "quit", "started", "suppressed", "dropped", "event"},
           type : Types \cup {None}, n : Nat]
Running ==
  [pc : {"top", "requests", "respond", "started", "take", "drain", "flush", "end"},
   stream : Types \cup {None}, frames : Seq(Frames), current : BOOLEAN, dropped : Nat,
   suppressed : Nat, answer : {"none", "start", "stop", "error", "ok", "quit"}]
Bounds == [clients : Nat, commands : Nat, events : 0..MaxEvents, suppressed : Nat, signals : Nat,
           streams : SUBSET Types]
Tallies == [offered : Nat, popped : Nat, reported : Nat, stolen : BOOLEAN]

\* Every variable keeps its type; a session has locals while its loop runs.
TypeOK ==
  /\ sub \in [Types -> Sessions \cup {None}]
  /\ ring \in [Types -> Seq(Nat)] /\ pending \in [Types -> Seq(Nat)]
  /\ dropped \in [Types -> Nat] /\ suppressed \in [Types -> Nat]
  /\ se \in [Sessions -> Running \cup {Gone, [pc |-> "release"]}]
  /\ active \in Nat
  /\ acc \in [Acceptors -> [pc : {"accept", "cas", "spawn"}, cur : Nat]]
  /\ down \in BOOLEAN
  /\ out \in [Sessions -> Seq(Frames)]
  /\ counting \subseteq Queued
  /\ tally \in [Types -> Tallies]
  /\ left \in Bounds

\* What a client reads: an event or a notice of a stream only between the START
\* response, with the started notice right after it, and the STOP response, and
\* its events in the order they happened, each once and, after a STOP, only
\* newer ones.  (ControlVNextSession::run, STREAM.START and STREAM.STOP.)
InStream(q, i) ==
  \E j \in 1..(i - 1) :
    /\ q[j].kind = "start" /\ q[j].type = q[i].type
    /\ q[j + 1].kind = "started"
    /\ \A k \in (j + 1)..i : q[k].kind \notin {"start", "stop"}

WireOrder ==
  \A s \in Sessions : LET q == out[s] IN
    /\ \A i \in DOMAIN q : q[i].kind \in {"started", "event", "dropped", "suppressed"} => InStream(q, i)
    /\ \A i, j \in DOMAIN q :
         /\ i < j /\ q[i].kind = "event" /\ q[j].kind = "event" /\ q[i].type = q[j].type
         /\ q[i].type \in Queued
         => q[i].n < q[j].n

\* No event offered to a subscriber vanishes: it was handed to the writer, waits,
\* or is counted as dropped, in the counter, in the session or in a notice; unless
\* a session that had lost the stream took the counter (Take asks no owner).
LossAccounted ==
  \A t \in Queued, s \in Sessions :
    sub[t] = s /\ ~tally[t].stolen =>
      tally[t].offered = tally[t].popped + Len(pending[t]) + dropped[t]
                           + tally[t].reported + se[s].dropped

\* The budget counts the sessions that live or are about to, and keeps its limit.
BudgetKept ==
  /\ active <= Limit
  /\ active = Cardinality({s \in Sessions : se[s].pc # "gone"}) + Cardinality({a \in Acceptors : acc[a].pc = "spawn"})

Over(s) == se[s].pc \in {"release", "gone"}
LostStream(s) == ~Over(s) /\ Stream(s) # None /\ sub[Stream(s)] # s

\* A session whose stream a RESETALL took away ends, and so does every session
\* after a shutdown request, whatever its client does.
SessionsEnd == \A s \in Sessions : (LostStream(s) \/ down) ~> (Over(s) \/ (Stream(s) = None /\ ~down))
=============================================================================
