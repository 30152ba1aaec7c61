------------------------- MODULE OutputCaptureProofs --------------------------
(***************************************************************************)
(* Proved for every size of a read, every size of the kept tail and every  *)
(* length of the stream: a published stream is what was read of the pipe,  *)
(* says so when it is not all of it, and is not written to any more.       *)
(***************************************************************************)
EXTENDS OutputCapture, SequenceTheorems, TLAPS

-----------------------------------------------------------------------------
(* The invariant *)

FlagsSet == [output : BOOLEAN, active : BOOLEAN, revoked : BOOLEAN, cancelled : BOOLEAN,
             failed : BOOLEAN]
SinkSet == [input : BOOLEAN, ack : BOOLEAN, aborted : BOOLEAN, missed : BOOLEAN]
HelperSet == [exit : {"none", "good", "bad"}, todo : Seq(Nat), ack : BOOLEAN]
StockSet == [complete : BOOLEAN, stable : BOOLEAN, prefix : Nat, observed : Nat, forced : BOOLEAN]
PublishedSet == [kind : {"none", "promoted", "copied", "fallback"}, content : Seq(Nat),
                 truncated : BOOLEAN, late : BOOLEAN]

TypesInv ==
    /\ observed \in Nat /\ prefix \in Nat
    /\ reader \in {"reading", "observed", "sending", "awaiting", "stored", "ending", "closing", "done"}
    /\ flags \in FlagsSet /\ sink \in SinkSet /\ helper \in HelperSet
    /\ staging \in Seq(Nat)
    /\ stage \in {"running", "wait", "cancel", "idle", "count", "measure", "judge", "publish",
                  "promote", "over"}
    /\ stock \in StockSet /\ published \in PublishedSet

\* The reader is handing a chunk to the helper.
HandingOver == reader \in {"sending", "awaiting", "stored"}

\* Who may still write to the staging file: a helper with a chunk that the reader is
\* waiting for, or that it has stopped waiting for.
WriterInv ==
    /\ HandingOver => flags.active
    /\ sink.missed => flags.failed /\ reader \in {"ending", "closing", "done"}
    /\ helper.exit = "none" /\ helper.todo # <<>> => reader = "awaiting" \/ sink.missed
    /\ reader \in {"reading", "observed", "sending", "stored"} => helper.todo = <<>>
    /\ helper.ack /\ reader = "awaiting" => helper.todo = <<>>

\* One chunk at most was read and not acknowledged.
ReadInv ==
    /\ prefix <= observed /\ observed <= prefix + Chunk
    /\ reader \in {"reading", "stored"} => observed = prefix
    /\ reader \in {"observed", "sending", "awaiting"} => observed = prefix + Chunk

\* The staging file and what the helper still has to write continue the stream without
\* a gap, up to what was read and from what was acknowledged.
FileInv ==
    /\ \A i \in 1 .. Len(staging) : staging[i] = i
    /\ \A i \in 1 .. Len(helper.todo) : helper.todo[i] = Len(staging) + i
    /\ prefix <= Len(staging)
    /\ Len(staging) + Len(helper.todo) <= observed
    /\ reader \in {"observed", "sending"} => Len(staging) = prefix
    /\ reader = "awaiting" => Len(staging) + Len(helper.todo) = observed

\* The staging file is the helper's until it is complemented.
Early == stage \notin {"promote", "over"}

\* Nothing is counted before the reader is done or may not hand over any more.
Stopped ==
    /\ stage \in {"wait", "cancel", "idle", "count", "measure", "judge"} =>
          (reader = "done" \/ flags.revoked)
    /\ stage = "wait" => stock.forced
    /\ stage \in {"cancel", "idle", "count", "measure", "judge"} /\ ~stock.forced => reader = "done"

\* Once the stream is counted no further chunk goes to the helper.
CountedInv ==
    stage \in {"measure", "judge"} \/ (stage = "publish" /\ stock.stable) =>
        /\ stock.observed <= observed
        /\ Len(staging) + Len(helper.todo) <= stock.observed
        /\ reader = "sending" => stock.observed = observed

\* The file has what was vouched for, and the count is one chunk ahead at most.
MeasuredInv ==
    stage \in {"judge", "publish"} =>
        /\ stock.prefix <= Len(staging)
        /\ stock.prefix <= stock.observed
        /\ stock.observed <= stock.prefix + Chunk

\* What the stock says of the writer stays true.
StableInv ==
    /\ stock.stable =>
          /\ stage \in {"publish", "promote", "over"}
          /\ reader = "done" \/ (flags.revoked /\ helper.exit # "none" /\ ~HandingOver)
    /\ stock.complete => stock.stable /\ reader = "done" /\ ~sink.missed
    /\ stock.complete /\ stage = "publish" => Len(staging) = observed
    /\ stage = "promote" =>
          /\ stock.stable /\ ~stock.complete
          /\ ~sink.missed => staging = Bytes(1, stock.observed)

PublishedInv ==
    /\ published.kind # "none" => stage = "over" /\ published.truncated = ~stock.complete
    /\ published.kind = "promoted" => stock.stable
    /\ PublishedIsFaithful

IInv ==
    /\ TypesInv /\ WriterInv /\ ReadInv /\ (Early => FileInv)
    /\ Stopped /\ CountedInv /\ MeasuredInv /\ StableInv /\ PublishedInv

-----------------------------------------------------------------------------
(* Stretches of the stream *)

LEMMA BytesIs ==
    ASSUME NEW first \in Nat, NEW last \in Nat, first <= last + 1
    PROVE  /\ Bytes(first, last) \in Seq(Nat)
           /\ Len(Bytes(first, last)) = last + 1 - first
           /\ DOMAIN Bytes(first, last) = 1 .. (last + 1 - first)
           /\ \A i \in 1 .. (last + 1 - first) : Bytes(first, last)[i] = first + i - 1
<1>1. last + 1 - first \in Nat
  OBVIOUS
<1>2. \A i \in 1 .. (last + 1 - first) : first + i - 1 \in Nat
  OBVIOUS
<1>3. Bytes(first, last) \in [1 .. (last + 1 - first) -> Nat]
  BY <1>2 DEF Bytes
<1>4. Bytes(first, last) \in Seq(Nat) /\ Len(Bytes(first, last)) = last + 1 - first
  BY <1>1, <1>3
<1> QED
  BY <1>3, <1>4 DEF Bytes

\* A file that has byte i at position i is the beginning of the stream.
LEMMA Beginning ==
    ASSUME NEW s \in Seq(Nat), NEW n \in Nat, Len(s) = n, \A i \in 1 .. n : s[i] = i
    PROVE  s = Bytes(1, n)
<1>1. /\ Bytes(1, n) \in Seq(Nat) /\ Len(Bytes(1, n)) = n
      /\ \A i \in 1 .. n : Bytes(1, n)[i] = i
  <2>1. 1 \in Nat /\ 1 <= n + 1 /\ n + 1 - 1 = n
    OBVIOUS
  <2>2. Bytes(1, n) \in Seq(Nat) /\ Len(Bytes(1, n)) = n + 1 - 1
    BY <2>1, BytesIs
  <2>3. \A i \in 1 .. n : Bytes(1, n)[i] = 1 + i - 1
    BY <2>1, BytesIs
  <2> QED
    BY <2>1, <2>2, <2>3
<1>2. Len(s) = Len(Bytes(1, n)) /\ \A i \in 1 .. Len(s) : s[i] = Bytes(1, n)[i]
  BY <1>1
<1> QED
  BY <1>1, <1>2, SeqEqual

LEMMA TailIs ==
    ASSUME TypesInv
    PROVE  /\ TailStart \in Nat /\ TailStart <= stock.observed
           /\ stock.observed <= TailStart + Kept
           /\ ObservedTail \in Seq(Nat)
           /\ Len(ObservedTail) = stock.observed - TailStart
           /\ \A i \in 1 .. (stock.observed - TailStart) : ObservedTail[i] = TailStart + i
<1>1. stock.observed \in Nat /\ Kept \in Nat
  BY SizesAssumption DEF TypesInv, StockSet
<1>2. /\ TailStart \in Nat /\ TailStart <= stock.observed
      /\ stock.observed <= TailStart + Kept
  BY <1>1 DEF TailStart
<1>3. /\ ObservedTail \in Seq(Nat)
      /\ Len(ObservedTail) = stock.observed + 1 - (TailStart + 1)
      /\ \A i \in 1 .. (stock.observed + 1 - (TailStart + 1)) :
            ObservedTail[i] = TailStart + 1 + i - 1
  <2>1. TailStart + 1 \in Nat /\ TailStart + 1 <= stock.observed + 1
    BY <1>1, <1>2
  <2> QED
    BY <1>1, <2>1, BytesIs DEF ObservedTail
<1>4. stock.observed + 1 - (TailStart + 1) = stock.observed - TailStart
  BY <1>1, <1>2
<1>5. \A i \in 1 .. (stock.observed - TailStart) : TailStart + 1 + i - 1 = TailStart + i
  BY <1>1, <1>2
<1> QED
  BY <1>1, <1>2, <1>3, <1>4, <1>5

LEMMA MissingIs ==
    ASSUME TypesInv, NEW n \in Nat, Covered(n)
    PROVE  /\ Missing(n) \in Seq(Nat)
           /\ Len(Missing(n)) = stock.observed - n
           /\ \A i \in 1 .. (stock.observed - n) : Missing(n)[i] = n + i
<1>1. /\ TailStart \in Nat /\ ObservedTail \in Seq(Nat)
      /\ Len(ObservedTail) = stock.observed - TailStart
      /\ \A i \in 1 .. (stock.observed - TailStart) : ObservedTail[i] = TailStart + i
      /\ stock.observed \in Nat /\ TailStart <= n /\ n <= stock.observed
  BY TailIs DEF TypesInv, StockSet, Covered
<1>2. /\ Len(Missing(n)) = stock.observed - n
      /\ \A i \in 1 .. (stock.observed - n) : Missing(n)[i] = ObservedTail[n - TailStart + i]
      /\ Missing(n) \in Seq(Nat)
  BY <1>1 DEF Missing
<1>3. \A i \in 1 .. (stock.observed - n) : n - TailStart + i \in 1 .. (stock.observed - TailStart)
  BY <1>1
<1> QED
  BY <1>1, <1>2, <1>3

\* The beginning of the file, with what the tail has after it, is the stream as far as it
\* was counted.
LEMMA Complemented ==
    ASSUME TypesInv, NEW n \in Nat, Covered(n), n <= Len(staging),
           \A i \in 1 .. Len(staging) : staging[i] = i
    PROVE  SubSeq(staging, 1, n) \o Missing(n) = Bytes(1, stock.observed)
<1>1. /\ Missing(n) \in Seq(Nat) /\ Len(Missing(n)) = stock.observed - n
      /\ \A i \in 1 .. (stock.observed - n) : Missing(n)[i] = n + i
  BY MissingIs
<1>2. staging \in Seq(Nat) /\ Len(staging) \in Nat /\ stock.observed \in Nat /\ n <= stock.observed
  BY DEF TypesInv, StockSet, Covered
<1>3. /\ SubSeq(staging, 1, n) \in Seq(Nat) /\ Len(SubSeq(staging, 1, n)) = n
      /\ \A i \in 1 .. n : SubSeq(staging, 1, n)[i] = i
  BY <1>2
<1> DEFINE s == SubSeq(staging, 1, n) \o Missing(n)
<1>4. /\ s \in Seq(Nat) /\ Len(s) = stock.observed
      /\ \A i \in 1 .. stock.observed :
            s[i] = IF i <= n THEN SubSeq(staging, 1, n)[i] ELSE Missing(n)[i - n]
  <2>1. /\ s \in Seq(Nat) /\ Len(s) = n + (stock.observed - n)
        /\ \A i \in 1 .. n + (stock.observed - n) :
              s[i] = IF i <= n THEN SubSeq(staging, 1, n)[i] ELSE Missing(n)[i - n]
    BY <1>1, <1>3, ConcatProperties
  <2> QED
    BY <1>2, <2>1
<1> HIDE DEF s
<1>5. ASSUME NEW i \in 1 .. stock.observed PROVE s[i] = i
  <2>1. CASE i <= n
    <3>1. i \in 1 .. n
      BY <1>2, <2>1
    <3> QED
      BY <1>3, <1>4, <2>1, <3>1
  <2>2. CASE i > n
    <3>1. /\ i - n \in 1 .. (stock.observed - n) /\ n + (i - n) = i /\ ~ (i <= n)
      BY <1>2, <2>2
    <3> QED
      BY <1>1, <1>2, <1>4, <2>2, <3>1
  <2>3. i <= n \/ i > n
    BY <1>2
  <2> QED
    BY <2>1, <2>2, <2>3
<1> QED
  BY <1>2, <1>4, <1>5, Beginning DEF s

-----------------------------------------------------------------------------
(* Types *)

LEMMA InitTypes == Init => TypesInv
<1> SUFFICES ASSUME Init PROVE TypesInv
  OBVIOUS
<1> USE DEF Init, NothingTaken, NotPublished
<1>1. flags \in FlagsSet /\ sink \in SinkSet /\ stock \in StockSet
  BY DEF FlagsSet, SinkSet, StockSet
<1>2. <<>> \in Seq(Nat)
  OBVIOUS
<1>3. helper \in HelperSet /\ published \in PublishedSet
  BY <1>2 DEF HelperSet, PublishedSet
<1> QED
  BY <1>1, <1>2, <1>3 DEF TypesInv

LEMMA WorkerTypes == TypesInv /\ ReadInv /\ WorkerStep => TypesInv'
<1> SUFFICES ASSUME TypesInv, ReadInv, WorkerStep PROVE TypesInv'
  OBVIOUS
<1>1. flags' \in FlagsSet /\ sink' \in SinkSet
  <2> USE DEF TypesInv, FlagsSet
  <2>1. CASE Observe \/ Send \/ Acknowledged
    BY <2>1 DEF Observe, Send, Acknowledged, capture
  <2>2. CASE StreamEnds
    BY <2>2 DEF StreamEnds, capture
  <2>3. CASE Claim
    BY <2>3 DEF Claim, capture
  <2>4. CASE Release
    BY <2>4 DEF Release, capture
  <2>5. CASE WriteFails
    BY <2>5 DEF WriteFails, capture
  <2>6. CASE AcknowledgementMissed
    BY <2>6 DEF AcknowledgementMissed, SinkSet
  <2>7. CASE TakeBack
    BY <2>7 DEF TakeBack, SinkSet
  <2>8. CASE CloseSink
    BY <2>8 DEF CloseSink, SinkSet, HelperSet
  <2>9. CASE CloseGivesUp
    BY <2>9 DEF CloseGivesUp, SinkSet
  <2> QED
    BY <2>1, <2>2, <2>3, <2>4, <2>5, <2>6, <2>7, <2>8, <2>9 DEF WorkerStep
<1>2. helper' \in HelperSet
  <2>1. CASE Send
    <3>1. observed - Chunk + 1 \in Nat /\ observed - Chunk + 1 <= observed + 1
      BY <2>1, SizesAssumption DEF Send, TypesInv, ReadInv
    <3>2. Bytes(observed - Chunk + 1, observed) \in Seq(Nat)
      BY <3>1, BytesIs DEF TypesInv
    <3> QED
      BY <2>1, <3>2 DEF Send, TypesInv, HelperSet
  <2>2. CASE ~Send
    <3>1. UNCHANGED helper
      BY <2>2 DEF WorkerStep, capture, Observe, StreamEnds, Claim, Acknowledged, Release,
                  WriteFails, AcknowledgementMissed, TakeBack, CloseSink, CloseGivesUp
    <3> QED
      BY <3>1 DEF TypesInv
  <2> QED
    BY <2>1, <2>2
<1>3. observed' \in Nat /\ prefix' \in Nat
  BY SizesAssumption
     DEF TypesInv, WorkerStep, Observe, StreamEnds, Claim, Send, Acknowledged, Release,
         WriteFails, AcknowledgementMissed, TakeBack, CloseSink, CloseGivesUp
<1>4. /\ UNCHANGED <<staging, stage, stock, published>>
      /\ reader' \in {"observed", "sending", "awaiting", "stored", "reading", "ending", "closing",
                      "done"}
  BY DEF WorkerStep, Observe, StreamEnds, Claim, Send, Acknowledged, Release, LoopsTo,
         WriteFails, AcknowledgementMissed, TakeBack, CloseSink, CloseGivesUp, Reader, capture
<1> QED
  BY <1>1, <1>2, <1>3, <1>4 DEF TypesInv

LEMMA HelperTypes == TypesInv /\ HelperStep => TypesInv'
<1> SUFFICES ASSUME TypesInv, HelperStep PROVE TypesInv'
  OBVIOUS
<1>1. UNCHANGED <<worker, sink, stage, stock, published>>
  BY DEF HelperStep, HelperWrites, HelperAcknowledges, HelperEnds, HelperDies, Helper
<1>2. helper' \in HelperSet /\ staging' \in Seq(Nat)
  <2>1. CASE HelperWrites
    <3>1. helper.todo \in Seq(Nat)
      BY DEF TypesInv, HelperSet
    <3>2. Head(helper.todo) \in Nat /\ Tail(helper.todo) \in Seq(Nat)
      BY <2>1, <3>1, HeadTailProperties DEF HelperWrites
    <3>3. staging' \in Seq(Nat)
      BY <2>1, <3>2, AppendProperties DEF HelperWrites, TypesInv
    <3> QED
      BY <2>1, <3>2, <3>3 DEF HelperWrites, TypesInv, HelperSet
  <2>2. CASE HelperAcknowledges
    BY <2>2 DEF HelperAcknowledges, TypesInv, HelperSet
  <2>3. CASE HelperEnds
    BY <2>3 DEF HelperEnds, TypesInv, HelperSet
  <2>4. CASE HelperDies
    BY <2>4 DEF HelperDies, TypesInv, HelperSet
  <2> QED
    BY <2>1, <2>2, <2>3, <2>4 DEF HelperStep
<1> QED
  BY <1>1, <1>2 DEF TypesInv, worker

\* The thread of run() takes stock, and the adapter publishes it.
CleanupStep ==
    \/ Settle \/ RequestAbort \/ AbortReturns \/ Cancel \/ CloseIfIdle
    \/ CountObserved \/ Measure \/ Judge \/ TakeNothing
PublishStep == Complement \/ Promote \/ Copy \/ FallBack

LEMMA NextCases ==
    ASSUME [Next]_vars
    PROVE  WorkerStep \/ HelperStep \/ CleanupStep \/ PublishStep \/ UNCHANGED vars
BY DEF Next, CleanupStep, PublishStep

LEMMA CleanupTypes == TypesInv /\ CleanupStep => TypesInv'
<1> SUFFICES ASSUME TypesInv, CleanupStep PROVE TypesInv'
  OBVIOUS
<1>1. /\ UNCHANGED <<observed, prefix, reader, helper, staging, published>>
      /\ stage' \in {"wait", "cancel", "idle", "count", "measure", "judge", "publish"}
  BY DEF CleanupStep, Settle, RequestAbort, AbortReturns, Cancel, CloseIfIdle,
         CountObserved, Measure, Judge, TakeNothing, Take, Thread
<1>2. flags' \in FlagsSet /\ sink' \in SinkSet
  <2> USE DEF TypesInv, FlagsSet, SinkSet
  <2>1. CASE Settle
    BY <2>1 DEF Settle
  <2>2. CASE RequestAbort
    BY <2>2 DEF RequestAbort
  <2>3. CASE AbortReturns
    BY <2>3 DEF AbortReturns
  <2>4. CASE Cancel
    BY <2>4 DEF Cancel
  <2>5. CASE CloseIfIdle
    <3> DEFINE b == flags.failed \/ helper.exit = "none" \/ (helper.exit = "bad" /\ ~sink.aborted)
    <3>1. b \in BOOLEAN
      OBVIOUS
    <3>2. \/ flags' = [flags EXCEPT !.output = FALSE, !.failed = b]
          \/ flags' = flags
      <4>1. [flags EXCEPT !.output = FALSE, !.failed = b]
                = [flags EXCEPT !.output = FALSE,
                       !.failed = @ \/ helper.exit = "none" \/ (helper.exit = "bad" /\ ~sink.aborted)]
        OBVIOUS
      <4> HIDE DEF b
      <4> QED
        BY <2>5, <4>1 DEF CloseIfIdle
    <3> HIDE DEF b
    <3>3. flags' \in FlagsSet
      BY <3>1, <3>2
    <3> QED
      BY <2>5, <3>3 DEF CloseIfIdle
  <2>6. CASE CountObserved \/ Measure \/ Judge \/ TakeNothing
    BY <2>6 DEF CountObserved, Measure, Judge, TakeNothing, Take
  <2> QED
    BY <2>1, <2>2, <2>3, <2>4, <2>5, <2>6 DEF CleanupStep
<1>3. stock' \in StockSet
  <2>1. Len(staging) \in Nat /\ Stable \in BOOLEAN /\ Complete \in BOOLEAN
    BY DEF TypesInv, Stable, Complete
  <2>2. DurablePrefix \in Nat
    BY <2>1 DEF DurablePrefix, TypesInv
  <2>3. CASE RequestAbort
    BY <2>3 DEF RequestAbort, TypesInv, StockSet
  <2>4. CASE CountObserved
    BY <2>4 DEF CountObserved, Take, TypesInv, StockSet
  <2>5. CASE Measure
    BY <2>2, <2>5 DEF Measure, Take, TypesInv, StockSet
  <2>6. CASE Judge
    BY <2>1, <2>6 DEF Judge, Take, TypesInv, StockSet
  <2>7. CASE TakeNothing
    BY <2>7 DEF TakeNothing, Take, NothingTaken, StockSet
  <2>8. CASE Settle \/ AbortReturns \/ Cancel \/ CloseIfIdle
    BY <2>8 DEF Settle, AbortReturns, Cancel, CloseIfIdle, TypesInv
  <2> QED
    BY <2>3, <2>4, <2>5, <2>6, <2>7, <2>8 DEF CleanupStep
<1> QED
  BY <1>1, <1>2, <1>3 DEF TypesInv

LEMMA PublishTypes == TypesInv /\ MeasuredInv /\ PublishStep => TypesInv'
<1> SUFFICES ASSUME TypesInv, MeasuredInv, PublishStep PROVE TypesInv'
  OBVIOUS
<1>1. staging \in Seq(Nat) /\ Len(staging) \in Nat /\ stock.prefix \in Nat
      /\ stock.complete \in BOOLEAN
  BY DEF TypesInv, StockSet
<1>2. CASE Complement
  <2>1. Missing(Len(staging)) \in Seq(Nat)
    BY <1>1, <1>2, MissingIs DEF Complement
  <2>2. staging \o Missing(Len(staging)) \in Seq(Nat)
    BY <1>1, <2>1, ConcatProperties
  <2> QED
    BY <1>2, <2>2 DEF Complement, worker, TypesInv
<1>3. ASSUME NEW kind \in {"promoted", "copied", "fallback"}, NEW content \in Seq(Nat),
             NEW late \in BOOLEAN, Publish(kind, content, late)
      PROVE  TypesInv'
  <2>1. published' \in PublishedSet
    BY <1>1, <1>3 DEF Publish, PublishedSet
  <2> QED
    BY <1>3, <2>1 DEF Publish, worker, capture, TypesInv
<1>4. CASE Promote
  BY <1>1, <1>3, <1>4 DEF Promote
<1>5. CASE Copy
  <2>1. Missing(stock.prefix) \in Seq(Nat)
    BY <1>1, <1>5, MissingIs DEF Copy
  <2>2. SubSeq(staging, 1, stock.prefix) \in Seq(Nat)
    <3>1. stock.prefix <= Len(staging)
      BY <1>5 DEF Copy, MeasuredInv
    <3> QED
      BY <1>1, <3>1
  <2>3. SubSeq(staging, 1, stock.prefix) \o Missing(stock.prefix) \in Seq(Nat)
    BY <2>1, <2>2, ConcatProperties
  <2> QED
    BY <1>3, <1>5, <2>3 DEF Copy
<1>6. CASE FallBack
  BY <1>3, <1>6, TailIs DEF FallBack
<1> QED
  BY <1>2, <1>4, <1>5, <1>6 DEF PublishStep

LEMMA NextTypes == TypesInv /\ ReadInv /\ MeasuredInv /\ [Next]_vars => TypesInv'
<1>1. TypesInv /\ UNCHANGED vars => TypesInv'
  BY DEF TypesInv, vars, worker, capture
<1> QED
  BY <1>1, WorkerTypes, HelperTypes, CleanupTypes, PublishTypes, NextCases

-----------------------------------------------------------------------------
(* What was read and what was acknowledged *)

LEMMA WorkerReads == TypesInv /\ ReadInv /\ WorkerStep => ReadInv'
<1> SUFFICES ASSUME TypesInv, ReadInv, WorkerStep PROVE ReadInv'
  OBVIOUS
<1>0. Chunk \in Nat /\ observed \in Nat /\ prefix \in Nat
  BY SizesAssumption DEF TypesInv
<1> USE DEF ReadInv, Reader
<1>1. CASE Observe
  BY <1>0, <1>1 DEF Observe
<1>2. CASE StreamEnds \/ Claim
  BY <1>0, <1>2 DEF StreamEnds, Claim
<1>3. CASE Send \/ Acknowledged
  BY <1>0, <1>3 DEF Send, Acknowledged
<1>4. CASE Release
  BY <1>0, <1>4 DEF Release, LoopsTo
<1>5. CASE WriteFails \/ AcknowledgementMissed
  BY <1>0, <1>5 DEF WriteFails, AcknowledgementMissed
<1>6. CASE TakeBack \/ CloseSink \/ CloseGivesUp
  BY <1>0, <1>6 DEF TakeBack, CloseSink, CloseGivesUp
<1> QED
  BY <1>1, <1>2, <1>3, <1>4, <1>5, <1>6 DEF WorkerStep

\* The other actors do not read.
OtherStep == HelperStep \/ CleanupStep \/ PublishStep

LEMMA OthersDoNotRead == OtherStep => UNCHANGED <<observed, prefix, reader>>
BY DEF OtherStep, HelperStep, HelperWrites, HelperAcknowledges, HelperEnds, HelperDies, Helper,
       CleanupStep, Settle, RequestAbort, AbortReturns, Cancel, CloseIfIdle, CountObserved,
       Measure, Judge, TakeNothing, Take, Thread, PublishStep, Complement, Promote, Copy,
       FallBack, Publish, worker

LEMMA NextReads == TypesInv /\ ReadInv /\ [Next]_vars => ReadInv'
<1>1. ReadInv /\ UNCHANGED <<observed, prefix, reader>> => ReadInv'
  BY DEF ReadInv
<1>2. UNCHANGED vars => UNCHANGED <<observed, prefix, reader>>
  BY DEF vars, worker
<1> QED
  BY <1>1, <1>2, WorkerReads, OthersDoNotRead, NextCases DEF OtherStep

-----------------------------------------------------------------------------
(* Who may still write *)

LEMMA WorkerWrites == TypesInv /\ WriterInv /\ WorkerStep => WriterInv'
<1> SUFFICES ASSUME TypesInv, WriterInv, WorkerStep PROVE WriterInv'
  OBVIOUS
<1> USE DEF TypesInv, WriterInv, HandingOver, Reader, capture, FlagsSet, SinkSet, HelperSet
<1>1. CASE Observe
  BY <1>1 DEF Observe
<1>2. CASE StreamEnds
  BY <1>2 DEF StreamEnds
<1>3. CASE Claim
  BY <1>3 DEF Claim
<1>4. CASE Send
  BY <1>4 DEF Send
<1>5. CASE Acknowledged
  BY <1>5 DEF Acknowledged
<1>6. CASE Release
  BY <1>6 DEF Release, LoopsTo
<1>7. CASE WriteFails
  BY <1>7 DEF WriteFails
<1>8. CASE AcknowledgementMissed
  BY <1>8 DEF AcknowledgementMissed
<1>9. CASE TakeBack
  BY <1>9 DEF TakeBack
<1>10. CASE CloseSink
  BY <1>10 DEF CloseSink
<1>11. CASE CloseGivesUp
  BY <1>11 DEF CloseGivesUp
<1> QED
  BY <1>1, <1>2, <1>3, <1>4, <1>5, <1>6, <1>7, <1>8, <1>9, <1>10, <1>11 DEF WorkerStep

LEMMA HelperWritesOn == TypesInv /\ WriterInv /\ HelperStep => WriterInv'
<1> SUFFICES ASSUME TypesInv, WriterInv, HelperStep PROVE WriterInv'
  OBVIOUS
<1> USE DEF TypesInv, WriterInv, HandingOver, Helper, worker, HelperSet
<1>1. CASE HelperWrites
  BY <1>1 DEF HelperWrites
<1>2. CASE HelperAcknowledges
  BY <1>2 DEF HelperAcknowledges
<1>3. CASE HelperEnds
  BY <1>3 DEF HelperEnds
<1>4. CASE HelperDies
  BY <1>4 DEF HelperDies
<1> QED
  BY <1>1, <1>2, <1>3, <1>4 DEF HelperStep

LEMMA CleanupKeepsWriter == TypesInv /\ CleanupStep =>
    /\ UNCHANGED <<observed, prefix, reader, helper, staging, published>>
    /\ flags'.active = flags.active /\ sink'.missed = sink.missed
    /\ flags.failed => flags'.failed
    /\ flags.revoked => flags'.revoked
<1> SUFFICES ASSUME TypesInv, CleanupStep
             PROVE  /\ UNCHANGED <<observed, prefix, reader, helper, staging, published>>
                    /\ flags'.active = flags.active /\ sink'.missed = sink.missed
                    /\ flags.failed => flags'.failed
                    /\ flags.revoked => flags'.revoked
  OBVIOUS
<1> USE DEF TypesInv, FlagsSet, SinkSet, Thread
<1>1. CASE Settle
  BY <1>1 DEF Settle
<1>2. CASE RequestAbort
  BY <1>2 DEF RequestAbort
<1>3. CASE AbortReturns
  BY <1>3 DEF AbortReturns
<1>4. CASE Cancel
  BY <1>4 DEF Cancel
<1>5. CASE CloseIfIdle
  BY <1>5 DEF CloseIfIdle
<1>6. CASE CountObserved \/ Measure \/ Judge \/ TakeNothing
  BY <1>6 DEF CountObserved, Measure, Judge, TakeNothing, Take
<1> QED
  BY <1>1, <1>2, <1>3, <1>4, <1>5, <1>6 DEF CleanupStep

LEMMA PublishKeepsWriter == PublishStep => UNCHANGED <<observed, prefix, reader, flags, sink, helper, stock>>
BY DEF PublishStep, Complement, Promote, Copy, FallBack, Publish, worker, capture

LEMMA NextWriter == TypesInv /\ WriterInv /\ [Next]_vars => WriterInv'
<1> SUFFICES ASSUME TypesInv, WriterInv, [Next]_vars PROVE WriterInv'
  OBVIOUS
<1>1. CASE CleanupStep
  BY <1>1, CleanupKeepsWriter DEF WriterInv, HandingOver
<1>2. CASE PublishStep
  BY <1>2, PublishKeepsWriter DEF WriterInv, HandingOver
<1>3. CASE UNCHANGED vars
  BY <1>3 DEF vars, worker, capture, WriterInv, HandingOver
<1> QED
  BY <1>1, <1>2, <1>3, WorkerWrites, HelperWritesOn, NextCases

-----------------------------------------------------------------------------
(* The staging file *)

\* A chunk that is handed over continues the file.
LEMMA WorkerFiles == TypesInv /\ WriterInv /\ ReadInv /\ FileInv /\ WorkerStep => FileInv'
<1> SUFFICES ASSUME TypesInv, WriterInv, ReadInv, FileInv, WorkerStep PROVE FileInv'
  OBVIOUS
<1>0. /\ Chunk \in Nat /\ observed \in Nat /\ prefix \in Nat /\ helper.todo \in Seq(Nat)
      /\ staging \in Seq(Nat) /\ Len(staging) \in Nat /\ Len(helper.todo) \in Nat
  BY SizesAssumption DEF TypesInv, HelperSet
<1>1. CASE Observe
  BY <1>0, <1>1 DEF Observe, Reader, capture, FileInv, ReadInv, WriterInv
<1>2. CASE StreamEnds \/ Claim
  BY <1>0, <1>2 DEF StreamEnds, Claim, Reader, capture, FileInv
<1>3. CASE Send
  <2>1. observed = prefix + Chunk /\ Len(staging) = prefix
    BY <1>3 DEF Send, ReadInv, FileInv
  <2>2. helper'.todo = Bytes(prefix + 1, observed)
    <3>1. helper'.todo = Bytes(observed - Chunk + 1, observed)
      BY <1>3 DEF Send, TypesInv, HelperSet
    <3>2. observed - Chunk + 1 = prefix + 1
      BY <1>0, <2>1
    <3> QED
      BY <3>1, <3>2
  <2>3. /\ Len(helper'.todo) = Chunk
        /\ \A i \in 1 .. Chunk : helper'.todo[i] = prefix + i
    <3>1. prefix + 1 \in Nat /\ prefix + 1 <= observed + 1 /\ observed + 1 - (prefix + 1) = Chunk
      BY <1>0, <2>1
    <3>2. /\ Len(Bytes(prefix + 1, observed)) = observed + 1 - (prefix + 1)
          /\ \A i \in 1 .. (observed + 1 - (prefix + 1)) :
                Bytes(prefix + 1, observed)[i] = prefix + 1 + i - 1
      BY <1>0, <3>1, BytesIs
    <3>3. \A i \in 1 .. Chunk : prefix + 1 + i - 1 = prefix + i
      BY <1>0
    <3> QED
      BY <2>2, <3>1, <3>2, <3>3
  <2>4. \A i \in 1 .. Len(helper'.todo) : helper'.todo[i] = Len(staging) + i
    BY <1>0, <2>1, <2>3
  <2>5. UNCHANGED <<staging, observed, prefix>> /\ reader' = "awaiting" /\ observed = prefix + Chunk
    BY <1>3 DEF Send, Reader, ReadInv
  <2>6. /\ Len(staging') + Len(helper'.todo) = observed' /\ prefix' <= Len(staging')
        /\ \A i \in 1 .. Len(staging') : staging'[i] = i
        /\ \A i \in 1 .. Len(helper'.todo) : helper'.todo[i] = Len(staging') + i
    <3>1. \A i \in 1 .. Len(staging) : staging[i] = i
      BY DEF FileInv
    <3>2. Len(staging) + Len(helper'.todo) = observed /\ prefix <= Len(staging)
      BY <1>0, <2>1, <2>3
    <3> QED
      BY <2>4, <2>5, <3>1, <3>2
  <2>7. observed' <= observed'
    BY <1>0, <2>5
  <2> QED
    BY <2>5, <2>6, <2>7 DEF FileInv
<1>4. CASE Acknowledged
  <2>1. helper.todo = <<>>
    BY <1>4 DEF Acknowledged, WriterInv
  <2> QED
    BY <1>0, <1>4, <2>1 DEF Acknowledged, Reader, capture, FileInv, ReadInv
<1>5. CASE Release
  BY <1>0, <1>5 DEF Release, LoopsTo, Reader, capture, FileInv
<1>6. CASE WriteFails \/ AcknowledgementMissed \/ TakeBack \/ CloseSink \/ CloseGivesUp
  BY <1>0, <1>6 DEF WriteFails, AcknowledgementMissed, TakeBack, CloseSink, CloseGivesUp,
                    Reader, capture, FileInv
<1> QED
  BY <1>1, <1>2, <1>3, <1>4, <1>5, <1>6 DEF WorkerStep

LEMMA OneByteLess ==
    ASSUME NEW file \in Seq(Nat), NEW todo \in Seq(Nat), todo # <<>>
    PROVE  LET longer == Append(file, Head(todo))
               rest == Tail(todo)
           IN  /\ Len(longer) = Len(file) + 1 /\ Len(file) <= Len(longer)
               /\ Len(longer) + Len(rest) = Len(file) + Len(todo)
<1> DEFINE longer == Append(file, Head(todo))
           rest == Tail(todo)
<1>1. Len(file) \in Nat /\ Len(todo) \in Nat /\ Head(todo) \in Nat
  OBVIOUS
<1>2. Len(longer) = Len(file) + 1 /\ Len(rest) = Len(todo) - 1
  BY <1>1
<1> HIDE DEF longer, rest
<1>3. Len(file) <= Len(longer) /\ Len(longer) + Len(rest) = Len(file) + Len(todo)
  BY <1>1, <1>2
<1> QED
  BY <1>2, <1>3 DEF longer, rest

\* A byte goes from the front of what is to be written to the end of the file.
LEMMA OneByteOn ==
    ASSUME NEW file \in Seq(Nat), NEW todo \in Seq(Nat), todo # <<>>,
           \A i \in 1 .. Len(file) : file[i] = i,
           \A i \in 1 .. Len(todo) : todo[i] = Len(file) + i
    PROVE  LET longer == Append(file, Head(todo))
               rest == Tail(todo)
           IN  /\ Len(longer) = Len(file) + 1 /\ Len(longer) + Len(rest) = Len(file) + Len(todo)
               /\ \A i \in 1 .. Len(longer) : longer[i] = i
               /\ \A i \in 1 .. Len(rest) : rest[i] = Len(longer) + i
<1> DEFINE longer == Append(file, Head(todo))
           rest == Tail(todo)
<1>1. Len(file) \in Nat /\ Len(todo) \in Nat /\ Len(todo) >= 1 /\ Head(todo) = todo[1]
  OBVIOUS
<1>2. Head(todo) = Len(file) + 1
  BY <1>1
<1>3. /\ longer \in Seq(Nat) /\ Len(longer) = Len(file) + 1
      /\ \A i \in 1 .. Len(file) : longer[i] = file[i]
      /\ longer[Len(file) + 1] = Len(file) + 1
  BY <1>1, <1>2
<1>4. \A i \in 1 .. Len(longer) : i \in 1 .. Len(file) \/ i = Len(file) + 1
  BY <1>1, <1>3
<1>5. /\ rest \in Seq(Nat) /\ Len(rest) = Len(todo) - 1
      /\ \A i \in 1 .. Len(rest) : rest[i] = todo[i + 1]
  BY <1>1
<1> HIDE DEF longer, rest
<1>6. ASSUME NEW i \in 1 .. Len(rest) PROVE rest[i] = Len(longer) + i
  <2>1. i + 1 \in 1 .. Len(todo) /\ i \in Nat
    BY <1>1, <1>5
  <2>2. todo[i + 1] = Len(file) + (i + 1)
    BY <2>1
  <2> QED
    BY <1>1, <1>3, <1>5, <2>1, <2>2
<1>7. Len(longer) + Len(rest) = Len(file) + Len(todo)
  BY <1>1, <1>3, <1>5
<1> QED
  BY <1>3, <1>4, <1>6, <1>7 DEF longer, rest

LEMMA HelperFiles == TypesInv /\ WriterInv /\ FileInv /\ HelperStep => FileInv'
<1> SUFFICES ASSUME TypesInv, WriterInv, FileInv, HelperStep PROVE FileInv'
  OBVIOUS
<1>0. /\ observed \in Nat /\ prefix \in Nat /\ helper.todo \in Seq(Nat)
      /\ staging \in Seq(Nat) /\ Len(staging) \in Nat /\ Len(helper.todo) \in Nat
  BY DEF TypesInv, HelperSet
<1>1. UNCHANGED <<observed, prefix, reader>>
  BY DEF HelperStep, HelperWrites, HelperAcknowledges, HelperEnds, HelperDies, Helper, worker
<1>2. CASE HelperWrites
  <2>1. /\ helper.todo # <<>> /\ staging' = Append(staging, Head(helper.todo))
        /\ helper'.todo = Tail(helper.todo)
    BY <1>2 DEF HelperWrites, TypesInv, HelperSet
  <2>2. /\ Len(staging') = Len(staging) + 1
        /\ Len(staging') + Len(helper'.todo) = Len(staging) + Len(helper.todo)
        /\ \A i \in 1 .. Len(staging') : staging'[i] = i
        /\ \A i \in 1 .. Len(helper'.todo) : helper'.todo[i] = Len(staging') + i
    <3>1. /\ \A i \in 1 .. Len(staging) : staging[i] = i
          /\ \A i \in 1 .. Len(helper.todo) : helper.todo[i] = Len(staging) + i
      BY DEF FileInv
    <3> DEFINE longer == Append(staging, Head(helper.todo))
               rest == Tail(helper.todo)
    <3>2. /\ Len(longer) = Len(staging) + 1
          /\ Len(longer) + Len(rest) = Len(staging) + Len(helper.todo)
          /\ \A i \in 1 .. Len(longer) : longer[i] = i
          /\ \A i \in 1 .. Len(rest) : rest[i] = Len(longer) + i
      <4>1. helper.todo # <<>>
        BY <2>1
      <4> QED
        BY <1>0, <3>1, <4>1, OneByteOn
    <3>3. staging' = longer /\ helper'.todo = rest
      BY <2>1
    <3> HIDE DEF longer, rest
    <3> QED
      BY <3>2, <3>3
  <2>3. ~ (reader \in {"observed", "sending"})
    BY <2>1 DEF WriterInv
  <2>4. prefix <= Len(staging) /\ Len(staging) + Len(helper.todo) <= observed
        /\ (reader = "awaiting" => Len(staging) + Len(helper.todo) = observed)
    BY DEF FileInv
  <2>5. prefix <= Len(staging')
    BY <1>0, <2>2, <2>4
  <2>6. /\ prefix' <= Len(staging') /\ Len(staging') + Len(helper'.todo) <= observed'
        /\ (reader' = "awaiting" => Len(staging') + Len(helper'.todo) = observed')
        /\ ~ (reader' \in {"observed", "sending"})
    BY <1>1, <2>2, <2>3, <2>4, <2>5
  <2> QED
    BY <2>2, <2>6 DEF FileInv
<1>3. CASE HelperAcknowledges \/ HelperEnds \/ HelperDies
  <2>1. UNCHANGED staging /\ helper'.todo = helper.todo
    BY <1>3 DEF HelperAcknowledges, HelperEnds, HelperDies, TypesInv, HelperSet
  <2> QED
    BY <1>1, <2>1 DEF FileInv
<1> QED
  BY <1>2, <1>3 DEF HelperStep

LEMMA NextFiles ==
    TypesInv /\ WriterInv /\ ReadInv /\ (Early => FileInv) /\ [Next]_vars => (Early => FileInv)'
<1> SUFFICES ASSUME TypesInv, WriterInv, ReadInv, Early => FileInv, [Next]_vars, Early'
             PROVE  FileInv'
  OBVIOUS
<1>1. ~PublishStep
  BY DEF Early, PublishStep, Complement, Promote, Copy, FallBack, Publish
<1>2. Early
  BY <1>1, NextCases
     DEF Early, WorkerStep, Observe, StreamEnds, Claim, Send, Acknowledged, Release,
         WriteFails, AcknowledgementMissed, TakeBack, CloseSink, CloseGivesUp, Reader,
         HelperStep, HelperWrites, HelperAcknowledges, HelperEnds, HelperDies, Helper,
         CleanupStep, Settle, RequestAbort, AbortReturns, Cancel, CloseIfIdle, CountObserved,
         Measure, Judge, TakeNothing, Take, Thread, vars
<1>3. CASE CleanupStep
  BY <1>2, <1>3, CleanupKeepsWriter DEF FileInv
<1>4. CASE UNCHANGED vars
  BY <1>2, <1>4 DEF vars, worker, capture, FileInv
<1> QED
  BY <1>1, <1>2, <1>3, <1>4, WorkerFiles, HelperFiles, NextCases

-----------------------------------------------------------------------------
(* What the reader and the helper cannot do once they are stopped *)

LEMMA WorkerKeeps ==
    ASSUME TypesInv, WorkerStep
    PROVE  /\ UNCHANGED <<staging, stage, stock, published>> /\ helper'.exit = helper.exit
           /\ reader # "done"
           /\ flags.revoked => flags'.revoked
           /\ sink.missed => sink'.missed
           /\ sink'.missed => sink.missed \/ reader = "awaiting"
           /\ HandingOver' => HandingOver \/ ~flags.revoked
           /\ observed <= observed'
<1>0. Chunk \in Nat /\ observed \in Nat
  BY SizesAssumption DEF TypesInv
<1>1. UNCHANGED <<staging, stage, stock, published>> /\ reader # "done" /\ observed <= observed'
  BY <1>0 DEF WorkerStep, Observe, StreamEnds, Claim, Send, Acknowledged, Release, WriteFails,
          AcknowledgementMissed, TakeBack, CloseSink, CloseGivesUp, Reader, capture
<1>2. helper'.exit = helper.exit
  <2>1. CASE Send
    BY <2>1 DEF Send, TypesInv, HelperSet
  <2>2. CASE ~Send
    BY <2>2 DEF WorkerStep, capture, Observe, StreamEnds, Claim, Acknowledged, Release,
                WriteFails, AcknowledgementMissed, TakeBack, CloseSink, CloseGivesUp
  <2> QED
    BY <2>1, <2>2
<1>3. HandingOver' => HandingOver \/ ~flags.revoked
  BY DEF HandingOver, WorkerStep, Observe, StreamEnds, Claim, Send, Acknowledged, Release, LoopsTo,
         WriteFails, AcknowledgementMissed, TakeBack, CloseSink, CloseGivesUp, Reader
<1>4. /\ flags.revoked => flags'.revoked
      /\ sink.missed => sink'.missed
      /\ sink'.missed => sink.missed \/ reader = "awaiting"
  <2> USE DEF TypesInv, FlagsSet, SinkSet
  <2>1. CASE Observe \/ Send \/ Acknowledged
    BY <2>1 DEF Observe, Send, Acknowledged, capture
  <2>2. CASE StreamEnds
    BY <2>2 DEF StreamEnds, capture
  <2>3. CASE Claim
    BY <2>3 DEF Claim, capture
  <2>4. CASE Release
    BY <2>4 DEF Release, capture
  <2>5. CASE WriteFails
    BY <2>5 DEF WriteFails, capture
  <2>6. CASE AcknowledgementMissed
    BY <2>6 DEF AcknowledgementMissed
  <2>7. CASE TakeBack
    BY <2>7 DEF TakeBack
  <2>8. CASE CloseSink
    BY <2>8 DEF CloseSink
  <2>9. CASE CloseGivesUp
    BY <2>9 DEF CloseGivesUp
  <2> QED
    BY <2>1, <2>2, <2>3, <2>4, <2>5, <2>6, <2>7, <2>8, <2>9 DEF WorkerStep
<1> QED
  BY <1>1, <1>2, <1>3, <1>4

LEMMA HelperKeeps ==
    ASSUME TypesInv, HelperStep
    PROVE  /\ UNCHANGED <<observed, prefix, reader, flags, sink, stage, stock, published>>
           /\ helper.exit = "none"
           /\ staging' # staging => helper.todo # <<>>
BY DEF HelperStep, HelperWrites, HelperAcknowledges, HelperEnds, HelperDies, Helper, worker

\* A capture that counts as stable has no writer, unless an acknowledgement was missed.
LEMMA StableIsLeftAlone ==
    ASSUME TypesInv, WriterInv, StableInv, stock.stable, [Next]_vars
    PROVE  /\ reader = "done" => reader' = "done" /\ UNCHANGED observed
           /\ reader' = "done" \/ (flags'.revoked /\ helper'.exit # "none" /\ ~HandingOver')
           /\ sink'.missed <=> sink.missed
           /\ ~sink.missed /\ ~PublishStep => UNCHANGED staging
<1>0. reader = "done" \/ (flags.revoked /\ helper.exit # "none" /\ ~HandingOver)
  BY DEF StableInv
<1>1. CASE WorkerStep
  BY <1>0, <1>1, WorkerKeeps DEF HandingOver
<1>2. CASE HelperStep
  <2>1. ~sink.missed => helper.todo = <<>>
    BY <1>0, <1>2, HelperKeeps DEF WriterInv, HandingOver
  <2> QED
    BY <1>0, <1>2, <2>1, HelperKeeps DEF HandingOver
<1>3. CASE CleanupStep
  BY <1>0, <1>3, CleanupKeepsWriter DEF HandingOver
<1>4. CASE PublishStep
  BY <1>0, <1>4, PublishKeepsWriter DEF HandingOver
<1>5. CASE UNCHANGED vars
  BY <1>0, <1>5 DEF vars, worker, capture, HandingOver
<1> QED
  BY <1>1, <1>2, <1>3, <1>4, <1>5, NextCases

-----------------------------------------------------------------------------
(* Taking stock *)

LEMMA NextStopped == TypesInv /\ Stopped /\ [Next]_vars => Stopped'
<1> SUFFICES ASSUME TypesInv, Stopped, [Next]_vars PROVE Stopped'
  OBVIOUS
<1>1. CASE WorkerStep
  BY <1>1, WorkerKeeps DEF Stopped
<1>2. CASE HelperStep
  BY <1>2, HelperKeeps DEF Stopped
<1>3. CASE CleanupStep
  <2>0. reader' = reader /\ (flags.revoked => flags'.revoked)
    BY <1>3, CleanupKeepsWriter
  <2>1. CASE Settle
    BY <2>0, <2>1 DEF Settle, Thread, Stopped
  <2>2. CASE RequestAbort
    BY <2>0, <2>2 DEF RequestAbort, Thread, Stopped, TypesInv, FlagsSet, StockSet
  <2>3. CASE AbortReturns \/ Cancel \/ CloseIfIdle
    BY <2>0, <2>3 DEF AbortReturns, Cancel, CloseIfIdle, Thread, Stopped
  <2>4. CASE CountObserved \/ Measure
    <3>1. stock'.forced = stock.forced
      BY <2>4 DEF CountObserved, Measure, Take, TypesInv, StockSet
    <3> QED
      BY <2>0, <2>4, <3>1 DEF CountObserved, Measure, Take, Thread, Stopped
  <2>5. CASE Judge \/ TakeNothing
    BY <2>5 DEF Judge, TakeNothing, Take, Thread, Stopped
  <2> QED
    BY <1>3, <2>1, <2>2, <2>3, <2>4, <2>5 DEF CleanupStep
<1>4. CASE PublishStep
  BY <1>4 DEF PublishStep, Complement, Promote, Copy, FallBack, Publish, Stopped
<1>5. CASE UNCHANGED vars
  BY <1>5 DEF vars, worker, Stopped
<1> QED
  BY <1>1, <1>2, <1>3, <1>4, <1>5, NextCases

\* A step before publication: nothing is taken from what is written or still to be written.
LEMMA FilesGrow ==
    ASSUME TypesInv, HelperStep
    PROVE  /\ Len(staging) <= Len(staging')
           /\ Len(staging') + Len(helper'.todo) = Len(staging) + Len(helper.todo)
<1>0. /\ helper.todo \in Seq(Nat) /\ staging \in Seq(Nat)
      /\ Len(staging) \in Nat /\ Len(helper.todo) \in Nat
  BY DEF TypesInv, HelperSet
<1>1. CASE HelperWrites
  <2>1. /\ helper.todo # <<>> /\ staging' = Append(staging, Head(helper.todo))
        /\ helper'.todo = Tail(helper.todo)
    BY <1>1 DEF HelperWrites, TypesInv, HelperSet
  <2>2. /\ Len(staging) <= Len(Append(staging, Head(helper.todo)))
        /\ Len(Append(staging, Head(helper.todo))) + Len(Tail(helper.todo))
              = Len(staging) + Len(helper.todo)
    <3>1. helper.todo # <<>>
      BY <2>1
    <3> QED
      BY <1>0, <3>1, OneByteLess
  <2> QED
    BY <2>1, <2>2
<1>2. CASE HelperAcknowledges \/ HelperEnds \/ HelperDies
  <2>1. UNCHANGED staging /\ helper'.todo = helper.todo
    BY <1>2 DEF HelperAcknowledges, HelperEnds, HelperDies, TypesInv, HelperSet
  <2> QED
    BY <1>0, <2>1
<1> QED
  BY <1>1, <1>2 DEF HelperStep

LEMMA WorkerCounts ==
    ASSUME TypesInv, WriterInv, ReadInv, Early => FileInv, Stopped, CountedInv, StableInv, WorkerStep
    PROVE  CountedInv'
<1> SUFFICES ASSUME stage \in {"measure", "judge"} \/ (stage = "publish" /\ stock.stable)
             PROVE  /\ stock.observed <= observed'
                    /\ Len(staging) + Len(helper'.todo) <= stock.observed
                    /\ reader' = "sending" => stock.observed = observed'
  BY WorkerKeeps DEF CountedInv
<1>0. /\ observed \in Nat /\ prefix \in Nat /\ stock.observed \in Nat /\ Chunk \in Nat
      /\ Len(staging) \in Nat /\ helper.todo \in Seq(Nat) /\ Len(helper.todo) \in Nat
  BY SizesAssumption DEF TypesInv, HelperSet, StockSet
<1>1. flags.revoked
  BY WorkerKeeps DEF Stopped, StableInv
<1>2. /\ stock.observed <= observed
      /\ Len(staging) + Len(helper.todo) <= stock.observed
      /\ reader = "sending" => stock.observed = observed
  BY DEF CountedInv
<1>3. observed <= observed'
  BY WorkerKeeps
<1>4. reader' = "sending" => reader = "sending" /\ UNCHANGED observed
  BY <1>1 DEF WorkerStep, Observe, StreamEnds, Claim, Send, Acknowledged, Release, LoopsTo,
              WriteFails, AcknowledgementMissed, TakeBack, CloseSink, CloseGivesUp, Reader
<1>5. stock.observed <= observed'
  <2>1. observed' \in Nat
    BY <1>0 DEF WorkerStep, Observe, StreamEnds, Claim, Send, Acknowledged, Release,
                WriteFails, AcknowledgementMissed, TakeBack, CloseSink, CloseGivesUp
  <2> QED
    BY <1>0, <1>2, <1>3, <2>1
<1>6. Len(staging) + Len(helper'.todo) <= stock.observed
  <2>1. CASE Send
    <3>1. FileInv
      BY DEF Early
    <3>2. FileInv'
      BY <3>1, WorkerFiles
    <3>3. Len(staging') + Len(helper'.todo) = observed' /\ observed' = observed
          /\ staging' = staging /\ stock.observed = observed
      BY <1>2, <2>1, <3>2 DEF Send, Reader, FileInv
    <3> QED
      BY <1>0, <3>3
  <2>2. CASE ~Send
    <3>1. UNCHANGED helper
      BY <2>2 DEF WorkerStep, capture, Observe, StreamEnds, Claim, Acknowledged, Release,
                  WriteFails, AcknowledgementMissed, TakeBack, CloseSink, CloseGivesUp
    <3> QED
      BY <1>2, <3>1
  <2> QED
    BY <2>1, <2>2
<1> QED
  BY <1>2, <1>4, <1>5, <1>6

LEMMA CleanupCounts ==
    ASSUME TypesInv, Early => FileInv, CountedInv, StableInv, CleanupStep
    PROVE  CountedInv'
<1>0. UNCHANGED <<observed, prefix, reader, helper, staging>>
  BY CleanupKeepsWriter
<1>1. CASE Settle \/ RequestAbort \/ AbortReturns \/ Cancel \/ CloseIfIdle
  BY <1>1 DEF Settle, RequestAbort, AbortReturns, Cancel, CloseIfIdle, Thread, CountedInv
<1>2. CASE CountObserved
  <2>1. stock'.observed = observed
    BY <1>2 DEF CountObserved, Take, TypesInv, StockSet
  <2>2. Len(staging) + Len(helper.todo) <= observed /\ observed <= observed
    BY <1>2 DEF CountObserved, Early, FileInv, TypesInv
  <2> QED
    BY <1>0, <2>1, <2>2 DEF CountedInv
<1>3. CASE Measure
  <2>1. stock'.observed = stock.observed /\ stage = "measure"
    BY <1>3 DEF Measure, Take, TypesInv, StockSet
  <2> QED
    BY <1>0, <2>1 DEF CountedInv
<1>4. CASE Judge
  <2>1. stock'.observed = stock.observed /\ stage = "judge"
    BY <1>4 DEF Judge, Take, TypesInv, StockSet
  <2> QED
    BY <1>0, <2>1 DEF CountedInv
<1>5. CASE TakeNothing
  BY <1>5 DEF TakeNothing, Take, Thread, NothingTaken, CountedInv
<1> QED
  BY <1>1, <1>2, <1>3, <1>4, <1>5 DEF CleanupStep

LEMMA NextCounts ==
    /\ TypesInv /\ WriterInv /\ ReadInv /\ (Early => FileInv) /\ Stopped /\ CountedInv /\ StableInv
    /\ [Next]_vars
    => CountedInv'
<1> SUFFICES ASSUME TypesInv, WriterInv, ReadInv, Early => FileInv, Stopped, CountedInv, StableInv,
                    [Next]_vars
             PROVE  CountedInv'
  OBVIOUS
<1>1. CASE HelperStep
  BY <1>1, HelperKeeps, FilesGrow DEF CountedInv
<1>2. CASE PublishStep
  BY <1>2 DEF PublishStep, Complement, Promote, Copy, FallBack, Publish, CountedInv
<1>3. CASE UNCHANGED vars
  BY <1>3 DEF vars, worker, capture, CountedInv
<1> QED
  BY <1>1, <1>2, <1>3, WorkerCounts, CleanupCounts, NextCases

LEMMA OneChunkAhead ==
    ASSUME NEW read \in Nat, NEW vouched \in Nat, NEW counted \in Nat, NEW written \in Nat,
           NEW left \in Nat, NEW step \in Nat,
           counted <= read, written + left <= counted, vouched <= written, read <= vouched + step
    PROVE  /\ written <= counted /\ counted <= written + step
           /\ vouched <= counted /\ counted <= vouched + step
OBVIOUS

LEMMA NextMeasured ==
    /\ TypesInv /\ ReadInv /\ (Early => FileInv) /\ CountedInv /\ MeasuredInv /\ [Next]_vars
    => MeasuredInv'
<1> SUFFICES ASSUME TypesInv, ReadInv, Early => FileInv, CountedInv, MeasuredInv, [Next]_vars
             PROVE  MeasuredInv'
  OBVIOUS
<1>0. /\ observed \in Nat /\ prefix \in Nat /\ stock.observed \in Nat /\ stock.prefix \in Nat
      /\ Chunk \in Nat /\ Len(staging) \in Nat /\ Len(helper.todo) \in Nat /\ Len(staging') \in Nat
  BY SizesAssumption, NextTypes DEF TypesInv, HelperSet, StockSet
<1>1. CASE WorkerStep
  BY <1>1, WorkerKeeps DEF MeasuredInv
<1>2. CASE HelperStep
  BY <1>0, <1>2, HelperKeeps, FilesGrow DEF MeasuredInv
<1>3. CASE CleanupStep
  <2>0. UNCHANGED staging
    BY <1>3, CleanupKeepsWriter
  <2>1. CASE Settle \/ RequestAbort \/ AbortReturns \/ Cancel \/ CloseIfIdle \/ CountObserved
    BY <2>1 DEF Settle, RequestAbort, AbortReturns, Cancel, CloseIfIdle, CountObserved, Take,
                Thread, MeasuredInv
  <2>2. CASE Measure
    <3>1. stock'.observed = stock.observed /\ stock'.prefix = DurablePrefix /\ stage = "measure"
      BY <2>2 DEF Measure, Take, TypesInv, StockSet
    <3>2. /\ stock.observed <= observed /\ Len(staging) + Len(helper.todo) <= stock.observed
          /\ prefix <= Len(staging) /\ observed <= prefix + Chunk
      BY <3>1 DEF CountedInv, Early, FileInv, ReadInv
    <3>3. /\ DurablePrefix <= Len(staging) /\ DurablePrefix <= stock.observed
          /\ stock.observed <= DurablePrefix + Chunk
      <4>1. DurablePrefix = Len(staging) \/ DurablePrefix = prefix
        BY DEF DurablePrefix
      <4>2. /\ Len(staging) <= stock.observed /\ stock.observed <= Len(staging) + Chunk
            /\ prefix <= stock.observed /\ stock.observed <= prefix + Chunk
        BY <1>0, <3>2, OneChunkAhead
      <4>4. Len(staging) <= Len(staging)
        BY <1>0
      <4> QED
        BY <3>2, <4>1, <4>2, <4>4
    <3> QED
      BY <2>0, <3>1, <3>3 DEF MeasuredInv
  <2>3. CASE Judge
    <3>1. stock'.observed = stock.observed /\ stock'.prefix = stock.prefix /\ stage = "judge"
      BY <2>3 DEF Judge, Take, TypesInv, StockSet
    <3> QED
      BY <2>0, <3>1 DEF MeasuredInv
  <2>4. CASE TakeNothing
    BY <1>0, <2>0, <2>4 DEF TakeNothing, Take, NothingTaken, MeasuredInv
  <2> QED
    BY <1>3, <2>1, <2>2, <2>3, <2>4 DEF CleanupStep
<1>4. CASE PublishStep
  BY <1>4 DEF PublishStep, Complement, Promote, Copy, FallBack, Publish, MeasuredInv
<1>5. CASE UNCHANGED vars
  BY <1>5 DEF vars, capture, MeasuredInv
<1> QED
  BY <1>1, <1>2, <1>3, <1>4, <1>5, NextCases

-----------------------------------------------------------------------------
(* What the stock says of the writer *)

\* The file may be what remains to be published: the invariants up to here.
StockFacts ==
    TypesInv /\ WriterInv /\ ReadInv /\ (Early => FileInv) /\ Stopped /\ CountedInv /\ MeasuredInv

\* Reader and helper do not touch what is known of a stable capture.
LEMMA StableStays ==
    ASSUME StockFacts, StableInv, [Next]_vars, UNCHANGED <<stage, stock>>
    PROVE  StableInv'
<1>0. TypesInv /\ WriterInv
  BY DEF StockFacts
<1>1. CASE stock.stable
  <2>1. /\ reader = "done" => reader' = "done" /\ UNCHANGED observed
        /\ reader' = "done" \/ (flags'.revoked /\ helper'.exit # "none" /\ ~HandingOver')
        /\ sink'.missed <=> sink.missed
        /\ ~sink.missed /\ ~PublishStep => UNCHANGED staging
    BY <1>0, <1>1, StableIsLeftAlone
  <2>2. ~PublishStep \/ UNCHANGED staging
    BY <1>0 DEF PublishStep, Complement, Promote, Copy, FallBack, Publish
  <2>3. stock.complete => UNCHANGED <<staging, observed>>
    BY <2>1, <2>2 DEF StableInv
  <2>4. stage = "promote" /\ ~sink'.missed => UNCHANGED staging
    BY <2>1, <2>2
  <2>5. /\ stage \in {"publish", "promote", "over"}
        /\ stock.complete => reader = "done" /\ ~sink.missed
        /\ stock.complete /\ stage = "publish" => Len(staging) = observed
        /\ stage = "promote" =>
              /\ stock.stable /\ ~stock.complete
              /\ ~sink.missed => staging = Bytes(1, stock.observed)
    BY <1>1 DEF StableInv
  <2>6. stage = "promote" /\ ~sink'.missed => staging' = Bytes(1, stock.observed)
    BY <2>1, <2>4, <2>5
  <2>7. stock.complete /\ stage = "publish" => Len(staging') = observed'
    BY <2>3, <2>5
  <2> QED
    BY <1>1, <2>1, <2>5, <2>6, <2>7 DEF StableInv
<1>2. CASE ~stock.stable
  BY <1>2 DEF StableInv
<1> QED
  BY <1>1, <1>2

LEMMA NextStable == StockFacts /\ StableInv /\ [Next]_vars => StableInv'
<1> SUFFICES ASSUME StockFacts, StableInv, [Next]_vars PROVE StableInv'
  OBVIOUS
<1>0. TypesInv /\ WriterInv
  BY DEF StockFacts
<1>1. CASE UNCHANGED <<stage, stock>>
  BY <1>1, StableStays
<1>2. CASE CleanupStep
  <2>0. /\ UNCHANGED <<observed, reader, helper, staging>> /\ sink'.missed = sink.missed
        /\ stock.stable \in BOOLEAN /\ stock.complete \in BOOLEAN
    BY <1>0, <1>2, CleanupKeepsWriter DEF TypesInv, StockSet
  <2>1. stage \notin {"publish", "promote", "over"}
    BY <1>2 DEF CleanupStep, Settle, RequestAbort, AbortReturns, Cancel, CloseIfIdle,
                CountObserved, Measure, Judge, TakeNothing
  <2>2. ~stock.stable /\ ~stock.complete
    BY <2>1 DEF StableInv
  <2>3. CASE Judge
    <3>1. /\ stock'.stable = Stable /\ stock'.complete = Complete /\ stage' = "publish"
          /\ UNCHANGED <<flags, sink>>
      BY <1>0, <2>3 DEF Judge, Take, Thread, TypesInv, StockSet
    <3>2. Stable => reader = "done" \/ (flags.revoked /\ helper.exit # "none" /\ ~HandingOver)
      BY <1>0 DEF Stable, WriterInv
    <3>3. Complete => Stable /\ ~flags.failed /\ ~stock.forced /\ Len(staging) = observed
      BY DEF Complete, DurablePrefix
    <3>4. Complete => reader = "done" /\ ~sink.missed
      BY <1>0, <2>3, <3>3 DEF Judge, StockFacts, Stopped, WriterInv
    <3> QED
      BY <2>0, <3>1, <3>2, <3>3, <3>4 DEF StableInv, HandingOver
  <2>4. CASE ~Judge
    <3>1. stock'.stable = FALSE /\ stock'.complete = FALSE
      <4>1. CASE RequestAbort
        BY <1>0, <2>0, <2>2, <4>1 DEF RequestAbort, TypesInv, StockSet
      <4>2. CASE CountObserved
        BY <1>0, <2>0, <2>2, <4>2 DEF CountObserved, Take, TypesInv, StockSet
      <4>3. CASE Measure
        BY <1>0, <2>0, <2>2, <4>3 DEF Measure, Take, TypesInv, StockSet
      <4>4. CASE TakeNothing
        BY <4>4 DEF TakeNothing, Take, NothingTaken
      <4>5. CASE Settle \/ AbortReturns \/ Cancel \/ CloseIfIdle
        BY <2>0, <2>2, <4>5 DEF Settle, AbortReturns, Cancel, CloseIfIdle
      <4> QED
        BY <1>2, <2>4, <4>1, <4>2, <4>3, <4>4, <4>5 DEF CleanupStep
    <3>2. stage' # "promote"
      BY <1>2 DEF CleanupStep, Settle, RequestAbort, AbortReturns, Cancel, CloseIfIdle,
                  CountObserved, Measure, Judge, TakeNothing, Take, Thread
    <3> QED
      BY <3>1, <3>2 DEF StableInv
  <2> QED
    BY <2>3, <2>4
<1>3. CASE PublishStep
  <2>0. UNCHANGED <<observed, prefix, reader, flags, sink, helper, stock>>
    BY <1>3, PublishKeepsWriter
  <2>1. CASE Complement
    <3>1. /\ ~stock.complete /\ stock.stable /\ Covered(Len(staging)) /\ stage = "publish"
          /\ staging' = staging \o Missing(Len(staging)) /\ stage' = "promote"
      BY <2>1 DEF Complement
    <3>2. staging' = Bytes(1, stock.observed)
      <4>1. /\ staging \in Seq(Nat) /\ Len(staging) \in Nat
            /\ \A i \in 1 .. Len(staging) : staging[i] = i
        BY <1>0, <3>1 DEF TypesInv, StockFacts, Early, FileInv
      <4>2. SubSeq(staging, 1, Len(staging)) = staging
        BY <4>1
      <4>3. Len(staging) <= Len(staging)
        BY <4>1
      <4>4. SubSeq(staging, 1, Len(staging)) \o Missing(Len(staging)) = Bytes(1, stock.observed)
        BY <1>0, <3>1, <4>1, <4>3, Complemented
      <4> QED
        BY <3>1, <4>2, <4>4
    <3> QED
      BY <2>0, <3>1, <3>2 DEF StableInv, HandingOver
  <2>2. CASE Promote \/ Copy \/ FallBack
    <3>1. stage' = "over"
      BY <2>2 DEF Promote, Copy, FallBack, Publish
    <3> QED
      BY <2>0, <3>1 DEF StableInv, HandingOver
  <2> QED
    BY <1>3, <2>1, <2>2 DEF PublishStep
<1>4. CASE WorkerStep
  BY <1>0, <1>1, <1>4, WorkerKeeps
<1>5. CASE HelperStep
  BY <1>0, <1>1, <1>5, HelperKeeps
<1>6. CASE UNCHANGED vars
  BY <1>1, <1>6 DEF vars
<1> QED
  BY <1>2, <1>3, <1>4, <1>5, <1>6, NextCases

-----------------------------------------------------------------------------
(* What is published *)

LEMMA PublishedFits ==
    ASSUME StockFacts, StableInv, PublishedInv,
           NEW kind, NEW content, NEW late, Publish(kind, content, late),
           kind \in {"promoted", "copied", "fallback"},
           kind = "promoted" => stock.stable,
           kind # "promoted" => ~stock.complete,
           kind \in {"promoted", "copied"} /\ ~sink.missed =>
               content = Bytes(1, IF stock.complete THEN observed ELSE stock.observed),
           kind = "fallback" => late
    PROVE  PublishedInv'
<1>1. /\ published'.kind = kind /\ published'.content = content
      /\ published'.truncated = ~stock.complete /\ published'.late = late
      /\ stage' = "over" /\ UNCHANGED <<observed, reader, sink, stock>>
  BY DEF Publish, worker, capture
<1>2. stock.complete => reader = "done" /\ ~sink.missed
  BY DEF StableInv
<1>3. (~published'.truncated) = stock.complete
  BY <1>1 DEF StockFacts, TypesInv, StockSet
<1>4. PublishedIsObserved'
  BY <1>1, <1>3 DEF PublishedIsObserved
<1>5. CompleteIsEverything'
  BY <1>1, <1>2, <1>3 DEF CompleteIsEverything
<1>6. OnlyLatenessLosesThePrefix'
  BY <1>1 DEF OnlyLatenessLosesThePrefix
<1> QED
  BY <1>1, <1>4, <1>5, <1>6 DEF PublishedInv, PublishedIsFaithful

LEMMA PublishStepFits ==
    ASSUME StockFacts, StableInv, PublishedInv, PublishStep
    PROVE  PublishedInv'
<1>0. /\ TypesInv /\ staging \in Seq(Nat) /\ Len(staging) \in Nat /\ stock.complete \in BOOLEAN
      /\ stock.stable \in BOOLEAN /\ stock.prefix \in Nat /\ stock.observed \in Nat
      /\ observed \in Nat
  BY DEF StockFacts, TypesInv, StockSet
<1>1. CASE Complement
  <2>1. published.kind = "none" /\ UNCHANGED published
    <3>1. stage = "publish" /\ UNCHANGED published
      BY <1>1 DEF Complement
    <3> QED
      BY <3>1 DEF PublishedInv
  <2> QED
    BY <2>1 DEF PublishedInv, PublishedIsFaithful, PublishedIsObserved, CompleteIsEverything,
                OnlyLatenessLosesThePrefix
<1>2. CASE Promote
  <2>1. Publish("promoted", staging, FALSE)
    BY <1>2 DEF Promote
  <2>2. CASE stage = "promote"
    <3>1. stock.stable /\ ~stock.complete /\ (~sink.missed => staging = Bytes(1, stock.observed))
      BY <2>2 DEF StableInv
    <3> QED
      BY <2>1, <3>1, PublishedFits
  <2>3. CASE stage = "publish" /\ stock.complete
    <3>1. stock.stable /\ Len(staging) = observed
      BY <2>3 DEF StableInv
    <3>2. \A i \in 1 .. Len(staging) : staging[i] = i
      BY <2>3 DEF StockFacts, Early, FileInv
    <3>3. staging = Bytes(1, observed)
      BY <1>0, <3>1, <3>2, Beginning
    <3> QED
      BY <2>1, <2>3, <3>1, <3>3, PublishedFits
  <2> QED
    BY <1>2, <2>2, <2>3 DEF Promote
<1>3. CASE Copy
  <2> DEFINE content == SubSeq(staging, 1, stock.prefix) \o Missing(stock.prefix)
  <2>1. /\ ~stock.complete /\ stage = "publish" /\ Covered(stock.prefix)
        /\ Publish("copied", content, FALSE)
    BY <1>3 DEF Copy
  <2>2. stock.prefix <= Len(staging) /\ \A i \in 1 .. Len(staging) : staging[i] = i
    BY <2>1 DEF StockFacts, MeasuredInv, Early, FileInv
  <2>3. content = Bytes(1, stock.observed)
    BY <1>0, <2>1, <2>2, Complemented
  <2> HIDE DEF content
  <2> QED
    BY <2>1, <2>3, PublishedFits
<1>4. CASE FallBack
  <2>1. PICK late \in BOOLEAN :
            /\ IF stock.stable THEN ~late /\ ~Covered(Len(staging))
               ELSE late \/ ~Covered(stock.prefix)
            /\ Publish("fallback", ObservedTail, late)
    BY <1>4 DEF FallBack
  <2>2. ~stock.complete /\ stage = "publish"
    BY <1>4 DEF FallBack
  <2>3. /\ stock.prefix <= Len(staging) /\ stock.prefix <= stock.observed
        /\ stock.observed <= stock.prefix + Chunk /\ Chunk <= Kept
        /\ Chunk \in Nat /\ Kept \in Nat
    BY <2>2, SizesAssumption DEF StockFacts, MeasuredInv
  <2>4. TailStart <= stock.prefix /\ TailStart \in Nat
    <3>1. \A c, p, s, k \in Nat : s <= k /\ c <= p + s /\ c > k => c - k <= p /\ c - k \in Nat
      OBVIOUS
    <3>2. stock.observed > Kept => stock.observed - Kept <= stock.prefix /\ stock.observed - Kept \in Nat
      BY <1>0, <2>3, <3>1
    <3>3. 0 <= stock.prefix
      BY <1>0
    <3> QED
      BY <3>2, <3>3 DEF TailStart
  <2>5. Covered(stock.prefix)
    BY <2>3, <2>4 DEF Covered
  <2>6. stock.stable => Covered(Len(staging))
    <3>1. TailStart <= Len(staging)
      BY <1>0, <2>3, <2>4
    <3>2. stock.stable => Len(staging) <= stock.observed
      <4>1. SUFFICES ASSUME stock.stable PROVE Len(staging) <= stock.observed
        OBVIOUS
      <4>2. Len(staging) + Len(helper.todo) <= stock.observed /\ Len(helper.todo) \in Nat
        BY <1>0, <2>2, <4>1 DEF StockFacts, CountedInv, TypesInv, HelperSet
      <4>3. \A f, t, c \in Nat : f + t <= c => f <= c
        OBVIOUS
      <4> QED
        BY <1>0, <4>2, <4>3
    <3> QED
      BY <3>1, <3>2 DEF Covered
  <2>7. late
    BY <1>0, <2>1, <2>5, <2>6
  <2> QED
    BY <2>1, <2>2, <2>7, PublishedFits
<1> QED
  BY <1>1, <1>2, <1>3, <1>4 DEF PublishStep

LEMMA NextPublished == StockFacts /\ StableInv /\ PublishedInv /\ [Next]_vars => PublishedInv'
<1> SUFFICES ASSUME StockFacts, StableInv, PublishedInv, [Next]_vars PROVE PublishedInv'
  OBVIOUS
<1>0. TypesInv /\ WriterInv
  BY DEF StockFacts
<1>1. CASE PublishStep
  BY <1>1, PublishStepFits
<1>2. CASE ~PublishStep
  <2>1. UNCHANGED published /\ (sink.missed => sink'.missed)
    BY <1>0, <1>2, NextCases, WorkerKeeps, HelperKeeps, CleanupKeepsWriter
       DEF vars, capture
  <2>2. CASE published.kind = "none"
    BY <2>1, <2>2 DEF PublishedInv, PublishedIsFaithful, PublishedIsObserved,
                      CompleteIsEverything, OnlyLatenessLosesThePrefix
  <2>3. CASE published.kind # "none"
    <3>1. stage = "over" /\ published.truncated = ~stock.complete /\ stock.complete \in BOOLEAN
      BY <1>0, <2>3 DEF PublishedInv, TypesInv, StockSet
    <3>2. UNCHANGED <<stage, stock>>
      <4>1. ~CleanupStep
        BY <3>1 DEF CleanupStep, Settle, RequestAbort, AbortReturns, Cancel, CloseIfIdle,
                    CountObserved, Measure, Judge, TakeNothing
      <4> QED
        BY <1>0, <1>2, <4>1, NextCases, WorkerKeeps, HelperKeeps DEF vars
    <3>3. ~published.truncated => reader = "done" /\ reader' = "done" /\ UNCHANGED observed
      <4>1. SUFFICES ASSUME stock.complete
                     PROVE  reader = "done" /\ reader' = "done" /\ UNCHANGED observed
        BY <3>1
      <4>2. stock.stable /\ reader = "done"
        BY <4>1 DEF StableInv
      <4> QED
        BY <1>0, <4>2, StableIsLeftAlone
    <3>4. PublishedIsObserved'
      BY <2>1, <3>2, <3>3 DEF PublishedInv, PublishedIsFaithful, PublishedIsObserved
    <3>5. CompleteIsEverything'
      BY <2>1, <3>3 DEF PublishedInv, PublishedIsFaithful, CompleteIsEverything
    <3>6. OnlyLatenessLosesThePrefix'
      BY <2>1 DEF PublishedInv, PublishedIsFaithful, OnlyLatenessLosesThePrefix
    <3> QED
      BY <2>1, <3>1, <3>2, <3>4, <3>5, <3>6 DEF PublishedInv, PublishedIsFaithful
  <2> QED
    BY <2>2, <2>3
<1> QED
  BY <1>1, <1>2

-----------------------------------------------------------------------------
(* The theorems *)

LEMMA InitInv == Init => IInv
<1> SUFFICES ASSUME Init PROVE IInv
  OBVIOUS
<1>1. TypesInv
  BY InitTypes
<1>2. WriterInv
  BY DEF Init, WriterInv, HandingOver
<1>3. ReadInv
  BY SizesAssumption DEF Init, ReadInv
<1>4. FileInv
  BY DEF Init, FileInv
<1>5. Stopped /\ CountedInv /\ MeasuredInv
  BY DEF Init, Stopped, CountedInv, MeasuredInv
<1>6. StableInv
  BY DEF Init, StableInv, NothingTaken
<1>7. PublishedInv
  BY DEF Init, PublishedInv, NotPublished, PublishedIsFaithful, PublishedIsObserved,
         CompleteIsEverything, OnlyLatenessLosesThePrefix
<1> QED
  BY <1>1, <1>2, <1>3, <1>4, <1>5, <1>6, <1>7 DEF IInv

LEMMA NextInv == IInv /\ [Next]_vars => IInv'
<1> SUFFICES ASSUME IInv, [Next]_vars PROVE IInv'
  OBVIOUS
<1>1. StockFacts /\ StableInv /\ PublishedInv
  BY DEF IInv, StockFacts
<1>2. TypesInv' /\ WriterInv' /\ ReadInv'
  BY <1>1, NextTypes, NextWriter, NextReads DEF StockFacts
<1>3. (Early => FileInv)'
  BY <1>1, NextFiles DEF StockFacts
<1>4. Stopped' /\ CountedInv' /\ MeasuredInv'
  BY <1>1, NextStopped, NextCounts, NextMeasured DEF StockFacts
<1>5. StableInv' /\ PublishedInv'
  BY <1>1, NextStable, NextPublished
<1> QED
  BY <1>2, <1>3, <1>4, <1>5 DEF IInv

LEMMA CaptureInv == Spec => []IInv
BY InitInv, NextInv, PTL DEF Spec

\* Evidence that is published as the stream (providers/codex_cli/evidence.py) has the bytes
\* that were read, in order and without a gap or a repetition at the seam, and says so when
\* bytes were read after it or instead of it; the beginning is only given up when the time
\* for a copy has run out.
THEOREM PublishedEvidenceIsFaithful == Spec => []PublishedIsFaithful
<1>1. IInv => PublishedIsFaithful
  BY DEF IInv, PublishedInv
<1> QED
  BY <1>1, CaptureInv, PTL

\* A staging file that was renamed into the evidence (_promote_capture) has no writer left,
\* however many readers and helpers outlive the run.
THEOREM PromotedEvidenceIsImmutable == Spec => PublishedIsImmutable
<1>1. IInv /\ [Next]_vars => [published.kind = "promoted" /\ ~sink.missed => UNCHANGED staging]_vars
  <2> SUFFICES ASSUME IInv, [Next]_vars, published.kind = "promoted", ~sink.missed
               PROVE  UNCHANGED staging
    OBVIOUS
  <2>1. stock.stable /\ stage = "over" /\ TypesInv /\ WriterInv /\ StableInv
    BY DEF IInv, PublishedInv
  <2>2. ~Complement
    BY <2>1 DEF Complement
  <2>3. ~PublishStep \/ UNCHANGED staging
    BY <2>2 DEF PublishStep, Promote, Copy, FallBack, Publish, capture
  <2> QED
    BY <2>1, <2>3, StableIsLeftAlone
<1> QED
  BY <1>1, CaptureInv, PTL DEF Spec, PublishedIsImmutable
=============================================================================
