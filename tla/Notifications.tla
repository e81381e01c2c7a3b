---------------------------- MODULE Notifications ----------------------------
(***************************************************************************)
(* The notifications of one user (notifications.service.ts) and the worker *)
(* that pushes them to the user's devices (push.processor.ts).  dispatch   *)
(* saves a row, then adds a job to the queue, delayed as DoNotDisturb says; *)
(* BullMQ tries a job three times.  Each handler is a dispatch and its job. *)
(* Meanwhile devices are signed on and off.                                *)
(***************************************************************************)
EXTENDS Naturals, FiniteSets, SequencesExt, Awaits

CONSTANTS
  Tokens,    \* device_tokens of the user
  ChunkSize, \* messages that Expo takes in one request
  Attempts   \* attempts of a job

PushAssumption ==
  /\ ChunkSize \in Nat \ {0} /\ Attempts \in Nat \ {0}
  /\ IsFiniteSet(Tokens)

VARIABLES
  devices \* expo: the token is one of Expo; gone: the app was removed; active: is_active;
          \* off: the user has signed it off and not on again (history)

vars == <<devices, pc, local, overlapped>>

Devices == [expo : BOOLEAN, gone : BOOLEAN, active : BOOLEAN, off : BOOLEAN]
Steps == {"idle", "saved", "queued", "sending", "noting", "done", "failed"}

\* What the worker has read, what is left to send, which devices Expo does not know
\* any more, how often each device was sent it, and the attempts that failed.
NoJob == [tokens |-> <<>>, left |-> <<>>, unknown |-> {}, sent |-> [t \in Tokens |-> 0],
          failures |-> 0]

Init ==
  /\ devices \in [Tokens -> {d \in Devices : d.active /\ ~d.off}]
  /\ AllIdle(NoJob)

\* The row, then, unless the user has switched it off, the job.
Dispatch(h) ==
  /\ pc[h] = "idle"
  /\ Goto(h, "saved")
  /\ UNCHANGED <<devices, local>>
Enqueue(h) ==
  /\ pc[h] = "saved"
  /\ \E step \in {"queued", "done"} : Goto(h, step)
  /\ UNCHANGED <<devices, local>>

\* A filter keeps the order.
SameOrder(messages, tokens) ==
  \A i, j \in DOMAIN messages : i < j =>
    \E k, l \in DOMAIN tokens : k < l /\ messages[i] = tokens[k] /\ messages[j] = tokens[l]
Process(h) ==
  /\ pc[h] = "queued"
  /\ \E tokens \in SetToSeqs({t \in Tokens : devices[t].active}) :
     \E messages \in SetToSeqs({t \in ToSet(tokens) : devices[t].expo}) :
       /\ SameOrder(messages, tokens)
       /\ Hold(h, [local[h] EXCEPT !.tokens = tokens, !.left = messages])
       /\ Goto(h, IF messages = <<>> THEN "done" ELSE "sending")
  /\ UNCHANGED devices

Chunk(h) == SubSeq(local[h].left, 1, IF Len(local[h].left) < ChunkSize THEN Len(local[h].left) ELSE ChunkSize)
Counted(h) == [t \in Tokens |-> local[h].sent[t] + IF t \in ToSet(Chunk(h)) THEN 1 ELSE 0]

\* Mutant: an index too far.
RefusedNext(h) == {local[h].tokens[i] : i \in {j \in DOMAIN local[h].tokens :
                     j > 1 /\ j - 1 \in DOMAIN Chunk(h) /\ devices[Chunk(h)[j - 1]].gone}}
\* Receipts are matched by position: tokens[i] is the device of the i-th message as
\* long as every token is one of Expo and they fit one chunk.
Refused(h) == {local[h].tokens[i] : i \in {j \in DOMAIN Chunk(h) : devices[Chunk(h)[j]].gone}}
Send(h) ==
  /\ pc[h] = "sending"
  /\ Hold(h, [local[h] EXCEPT !.left = SubSeq(@, Len(Chunk(h)) + 1, Len(@)),
                              !.unknown = Refused(h), !.sent = Counted(h)])
  /\ Goto(h, "noting")
  /\ UNCHANGED devices

\* One UPDATE for each device that was refused, then the next chunk.
Note(h) ==
  /\ pc[h] = "noting"
  /\ \E t \in local[h].unknown :
       /\ devices' = [devices EXCEPT ![t].active = FALSE]
       /\ Hold(h, [local[h] EXCEPT !.unknown = @ \ {t}])
  /\ UNCHANGED pc
NextChunk(h) ==
  /\ pc[h] = "noting" /\ local[h].unknown = {}
  /\ Goto(h, IF local[h].left = <<>> THEN "done" ELSE "sending")
  /\ UNCHANGED <<devices, local>>

\* No answer: the chunk may have been taken.  Or an UPDATE fails.  The job starts from
\* the first chunk.
Fail(h) ==
  /\ \/ pc[h] = "sending"
     \/ pc[h] = "noting" /\ local[h].unknown # {}
  /\ \E sent \in {local[h].sent} \cup (IF pc[h] = "sending" THEN {Counted(h)} ELSE {}) :
       Hold(h, [local[h] EXCEPT !.left = <<>>, !.unknown = {}, !.sent = sent, !.failures = @ + 1])
  /\ Goto(h, IF local[h].failures + 1 = Attempts THEN "failed" ELSE "queued")
  /\ UNCHANGED devices

\* The app is removed from a device.
Uninstall(t) == ~devices[t].gone /\ devices' = [devices EXCEPT ![t].gone = TRUE]
\* registerDeviceToken, by the app at every start, and removeDeviceToken, at the logout.
SignOn(t) ==
  ~devices[t].gone /\ devices' = [devices EXCEPT ![t].active = TRUE, ![t].off = FALSE]
SignOff(t) ==
  ~devices[t].gone /\ devices' = [devices EXCEPT ![t].active = FALSE, ![t].off = TRUE]

HandlerStep(h) ==
  Dispatch(h) \/ Enqueue(h) \/ Process(h) \/ Send(h) \/ Note(h) \/ NextChunk(h) \/ Fail(h)

Next ==
  \/ \E h \in Handlers : HandlerStep(h) /\ Overlap(h)
  \/ \E t \in Tokens : (Uninstall(t) \/ SignOn(t) \/ SignOff(t)) /\ UNCHANGED <<pc, local, overlapped>>

Spec == Init /\ [][Next]_vars

-----------------------------------------------------------------------------
TypeOK ==
  /\ devices \in [Tokens -> Devices]
  /\ pc \in [Handlers -> Steps]
  /\ \A h \in Handlers :
       /\ local[h].tokens \in UNION {[1 .. n -> Tokens] : n \in 0 .. Cardinality(Tokens)}
       /\ local[h].left \in UNION {[1 .. n -> Tokens] : n \in 0 .. Cardinality(Tokens)}
       /\ local[h].unknown \subseteq Tokens
       /\ local[h].sent \in [Tokens -> 0 .. Attempts]
       /\ local[h].failures \in 0 .. Attempts
  /\ overlapped \in BOOLEAN

\* A job that is done has reached every device of Expo that it knew, and no device
\* more often than the job was tried.  If every token is one of Expo and they fit one
\* chunk, only devices that were signed off or have lost the app are no longer sent to.
PushReaches ==
  /\ \A h \in Handlers, t \in Tokens :
       /\ pc[h] = "done" /\ t \in ToSet(local[h].tokens) /\ devices[t].expo => local[h].sent[t] > 0
       /\ local[h].sent[t] <= local[h].failures + 1
  /\ (\A t \in Tokens : devices[t].expo) /\ Cardinality(Tokens) <= ChunkSize
       => \A t \in Tokens : ~devices[t].active => devices[t].gone \/ devices[t].off
=============================================================================
