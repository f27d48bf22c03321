----------------------------- MODULE SpscProofs -----------------------------
(***************************************************************************)
(* Proofs about Spsc, for every capacity that fits the position mask and   *)
(* any number of items.                                                    *)
(***************************************************************************)
EXTENDS Spsc, TLAPS

\* What channel() does not check.
Fits == Capacity <= position_mask + 1

-----------------------------------------------------------------------------
(* The inductive invariant.                                                *)

\* How many items lie between the consumer's and the producer's position.
Ahead == word[P].at - word[C].at
            + (IF word[P].rev = word[C].rev THEN 0 ELSE Capacity)

\* The distance of a slot from the consumer's position, around the ring.
Dist(i) == IF i >= word[C].at THEN i - word[C].at
           ELSE i - word[C].at + Capacity

\* The two words tell how many items are in the ring.
RingInv ==
    /\ \A s \in Side : word[s].at < Capacity
    /\ Ahead \in 0 .. Capacity
    /\ Ahead = sent - received

\* An acquired range is not empty, is no longer than asked for, and covers
\* items of the ring (consumer) or free slots (producer).
SpanInv ==
    /\ \A s \in Side : pc[s] \in {"copy", "release"} =>
          /\ word[s].at < end[s]
          /\ end[s] - word[s].at <= remaining[s]
    /\ pc[C] \in {"copy", "release"} => end[C] - word[C].at <= Ahead
    /\ pc[P] \in {"copy", "release"} =>
          end[P] - word[P].at <= Capacity - Ahead
    /\ \A s \in Side : pc[s] \in {"load", "wait", "sleep"} =>
          remaining[s] >= 1

\* What a slot holds: the items of the ring in order, without those the
\* consumer has moved out, and those the producer has not yet published.
Expected(i) ==
    IF Dist(i) < Ahead
    THEN IF pc[C] = "release" /\ i \in Range(C) THEN Raw
         ELSE received + 1 + Dist(i)
    ELSE IF pc[P] = "release" /\ i \in Range(P) THEN sent + 1 + (i - word[P].at)
         ELSE Raw

DataInv == arc # "deleted" => \A i \in Slots : data[i] = Expected(i)

\* The drop flag, the arc and the two destructors.
DropInv == \A s \in Side : word[s].drop = 1 <=> pc[s] \in Leaving
ArcInv ==
    /\ arc = "whole" => \A s \in Side : pc[s] \notin {"delete", "gone"}
    /\ arc = "half" => \E s \in Side : pc[s] = "gone" /\ pc[Other(s)] # "gone"
    /\ arc = "deleted" => \A s \in Side : pc[s] = "gone"

\* A side waits for the word it found it has to wait on.
WaitInv ==
    \A s \in Side : pc[s] = "wait" => MustWait(s, word[s], seen[s])

\* A call in progress has no result yet.
ResultInv ==
    \A s \in Side : pc[s] \in InCall => result[s] = "none"

IInv ==
    /\ TypeOK
    /\ RingInv
    /\ SpanInv
    /\ DataInv
    /\ DropInv
    /\ ArcInv
    /\ WaitInv
    /\ NoLostWakeup
    /\ ResultInv
    /\ EndsTold

-----------------------------------------------------------------------------
(* The arithmetic of one acquisition.                                      *)

LEMMA SideCases ==
    /\ Side = {P, C} /\ P # C
    /\ Other(P) = C /\ Other(C) = P
    /\ \A s \in Side : Other(s) \in Side /\ Other(s) # s /\ Other(Other(s)) = s
BY Zenon DEF Side, P, C, Other

\* The word that release() stores, when the capacity fits.
LEMMA NextWordFits ==
    ASSUME Fits, NEW mine \in Word, NEW e \in 1 .. Capacity
    PROVE  NextWord(mine, e) =
              IF e # Capacity
              THEN [at |-> e, rev |-> mine.rev, drop |-> 0]
              ELSE [at |-> 0, rev |-> 1 - mine.rev, drop |-> 0]
BY SpscAssumption DEF Fits, NextWord, Splice, Word

\* Init.
LEMMA InitIInv == Init => IInv
<1> SUFFICES ASSUME Init PROVE IInv
    BY Zenon
<1> USE SpscAssumption
<1>1. TypeOK
    BY DEF Init, TypeOK, Word, Side, Slots, Raw
<1>2. RingInv
    BY DEF Init, RingInv, Ahead, Side, P, C
<1>3. SpanInv
    BY Zenon DEF Init, SpanInv, Side, P, C
<1>4. DataInv
    BY DEF Init, DataInv, Expected, Ahead, Dist, Side, P, C, Slots, Raw
<1>5. DropInv /\ ArcInv /\ WaitInv /\ NoLostWakeup /\ ResultInv /\ EndsTold
    BY DEF Init, DropInv, ArcInv, WaitInv, NoLostWakeup, ResultInv, EndsTold,
           InCall, Leaving, Side, P, C
<1> QED
    BY <1>1, <1>2, <1>3, <1>4, <1>5, Zenon DEF IInv

-----------------------------------------------------------------------------
(* Steps that leave the ring, the words and the ranges alone.              *)

\* Where neither the slots nor the words change, and no side enters or
\* leaves a range, what the ring holds stays as it was.
LEMMA RingKept ==
    ASSUME IInv, UNCHANGED <<data, word, sent, received>>,
           arc = "deleted" => arc' = "deleted",
           \A s \in Side : /\ pc'[s] = "release" <=> pc[s] = "release"
                           /\ end'[s] = end[s]
    PROVE  RingInv' /\ DataInv'
<1> USE SideCases
<1>1. RingInv'
    BY Zenon DEF IInv, RingInv, Ahead
<1>2. DataInv'
    BY Zenon DEF IInv, DataInv, Expected, Ahead, Dist, Range
<1> QED
    BY <1>1, <1>2, Zenon

LEMMA CallStep ==
    ASSUME IInv, NEW s \in Side, NEW n \in Counts,
           NEW policy \in {"forever", "initially"}, Call(s, n, policy)
    PROVE  IInv'
<1> USE SpscAssumption, SideCases
<1>1. TypeOK'
    BY Zenon DEF IInv, TypeOK, Call, InCall
<1>2. RingInv' /\ DataInv'
    BY RingKept, Zenon DEF Call, IInv, TypeOK
<1>3. SpanInv'
    BY DEF IInv, TypeOK, SpanInv, Ahead, Call
<1>4. DropInv' /\ ArcInv'
    BY DEF IInv, TypeOK, DropInv, ArcInv, Call, Leaving
<1>5. WaitInv' /\ NoLostWakeup'
    BY DEF IInv, TypeOK, WaitInv, NoLostWakeup, MustWait, Call
<1>6. ResultInv' /\ EndsTold'
    BY Zenon DEF IInv, TypeOK, ResultInv, EndsTold, Call, InCall
<1> QED
    BY <1>1, <1>2, <1>3, <1>4, <1>5, <1>6, Zenon DEF IInv

LEMMA WaitStep ==
    ASSUME IInv, NEW s \in Side, Wait(s)
    PROVE  IInv'
<1> USE SpscAssumption, SideCases
<1>1. TypeOK'
    BY Zenon DEF IInv, TypeOK, Wait, InCall, Leaving
<1>2. RingInv' /\ DataInv'
    BY RingKept, Zenon DEF Wait, IInv, TypeOK
<1>3. SpanInv'
    BY Zenon DEF IInv, TypeOK, SpanInv, Ahead, Wait
<1>4. DropInv' /\ ArcInv'
    BY DEF IInv, TypeOK, DropInv, ArcInv, Wait, Leaving
<1>5. WaitInv' /\ NoLostWakeup'
    BY DEF IInv, TypeOK, WaitInv, NoLostWakeup, MustWait, Wait
<1>6. ResultInv' /\ EndsTold'
    BY DEF IInv, TypeOK, ResultInv, EndsTold, Wait, InCall
<1> QED
    BY <1>1, <1>2, <1>3, <1>4, <1>5, <1>6, Zenon DEF IInv

LEMMA WakeSpuriouslyStep ==
    ASSUME IInv, NEW s \in Side, WakeSpuriously(s)
    PROVE  IInv'
<1> USE SpscAssumption, SideCases
<1>1. TypeOK'
    BY Zenon DEF IInv, TypeOK, WakeSpuriously, InCall, Leaving
<1>2. RingInv' /\ DataInv'
    BY RingKept, Zenon DEF WakeSpuriously, IInv, TypeOK
<1>3. SpanInv'
    BY Zenon DEF IInv, TypeOK, SpanInv, Ahead, WakeSpuriously
<1>4. DropInv' /\ ArcInv'
    BY DEF IInv, TypeOK, DropInv, ArcInv, WakeSpuriously, Leaving
<1>5. WaitInv' /\ NoLostWakeup'
    BY DEF IInv, TypeOK, WaitInv, NoLostWakeup, MustWait, WakeSpuriously
<1>6. ResultInv' /\ EndsTold'
    BY DEF IInv, TypeOK, ResultInv, EndsTold, WakeSpuriously, InCall
<1> QED
    BY <1>1, <1>2, <1>3, <1>4, <1>5, <1>6, Zenon DEF IInv

LEMMA FillThrowsStep ==
    ASSUME IInv, FillThrows
    PROVE  IInv'
<1> USE SpscAssumption, SideCases
<1>1. TypeOK'
    BY Zenon DEF IInv, TypeOK, FillThrows, InCall, Leaving
<1>2. RingInv' /\ DataInv'
    BY RingKept, Zenon DEF FillThrows, IInv, TypeOK
<1>3. SpanInv'
    BY Zenon DEF IInv, TypeOK, SpanInv, Ahead, FillThrows
<1>4. DropInv' /\ ArcInv'
    BY Zenon DEF IInv, TypeOK, DropInv, ArcInv, FillThrows, Leaving
<1>5. WaitInv' /\ NoLostWakeup'
    BY DEF IInv, TypeOK, WaitInv, NoLostWakeup, MustWait, FillThrows
<1>6. ResultInv' /\ EndsTold'
    BY Zenon DEF IInv, TypeOK, ResultInv, EndsTold, FillThrows, InCall
<1> QED
    BY <1>1, <1>2, <1>3, <1>4, <1>5, <1>6, Zenon DEF IInv

LEMMA NotifyStep ==
    ASSUME IInv, NEW s \in Side, Notify(s)
    PROVE  IInv'
<1> USE SpscAssumption, SideCases
<1>1. TypeOK'
    BY DEF IInv, TypeOK, Notify, InCall, Leaving, WakeOther
<1>2. RingInv' /\ DataInv'
    BY RingKept DEF Notify, IInv, TypeOK, WakeOther
<1>3. SpanInv'
    BY DEF IInv, TypeOK, SpanInv, Ahead, Notify, WakeOther
<1>4. DropInv' /\ ArcInv'
    BY DEF IInv, TypeOK, DropInv, ArcInv, Notify, Leaving, WakeOther
<1>5. WaitInv' /\ NoLostWakeup'
    BY DEF IInv, TypeOK, WaitInv, NoLostWakeup, MustWait, Notify, WakeOther
<1>6. ResultInv' /\ EndsTold'
    BY DEF IInv, TypeOK, ResultInv, EndsTold, Notify, InCall, WakeOther
<1> QED
    BY <1>1, <1>2, <1>3, <1>4, <1>5, <1>6, Zenon DEF IInv

LEMMA DropNotifyStep ==
    ASSUME IInv, NEW s \in Side, DropNotify(s)
    PROVE  IInv'
<1> USE SpscAssumption, SideCases
<1>1. TypeOK'
    BY Zenon DEF IInv, TypeOK, DropNotify, InCall, Leaving, WakeOther
<1>2. RingInv' /\ DataInv'
    BY RingKept, Zenon DEF DropNotify, IInv, TypeOK, WakeOther
<1>3. SpanInv'
    BY DEF IInv, TypeOK, SpanInv, Ahead, DropNotify, WakeOther
<1>4. DropInv' /\ ArcInv'
    BY DEF IInv, TypeOK, DropInv, ArcInv, DropNotify, Leaving, WakeOther
<1>5. WaitInv' /\ NoLostWakeup'
    BY DEF IInv, TypeOK, WaitInv, NoLostWakeup, MustWait, DropNotify, WakeOther
<1>6. ResultInv' /\ EndsTold'
    BY DEF IInv, TypeOK, ResultInv, EndsTold, DropNotify, InCall, WakeOther
<1> QED
    BY <1>1, <1>2, <1>3, <1>4, <1>5, <1>6, Zenon DEF IInv

LEMMA ExchangeStep ==
    ASSUME IInv, NEW s \in Side, Exchange(s)
    PROVE  IInv'
<1> USE SpscAssumption, SideCases
<1>1. TypeOK'
    BY Zenon DEF IInv, TypeOK, Exchange, InCall, Leaving
<1>2. RingInv' /\ DataInv'
    BY RingKept, Zenon DEF Exchange, IInv, TypeOK, ArcInv
<1>3. SpanInv'
    BY Zenon DEF IInv, TypeOK, SpanInv, Ahead, Exchange
<1>4. DropInv' /\ ArcInv'
    BY DEF IInv, TypeOK, DropInv, ArcInv, Exchange, Leaving
<1>5. WaitInv' /\ NoLostWakeup'
    BY DEF IInv, TypeOK, WaitInv, NoLostWakeup, MustWait, Exchange
<1>6. ResultInv' /\ EndsTold'
    BY DEF IInv, TypeOK, ResultInv, EndsTold, Exchange, InCall
<1> QED
    BY <1>1, <1>2, <1>3, <1>4, <1>5, <1>6, Zenon DEF IInv

LEMMA LoadStep ==
    ASSUME IInv, NEW s \in Side, Load(s)
    PROVE  IInv'
<1> USE SpscAssumption, SideCases
<1> DEFINE mine == word[s]
           theirs == word[Other(s)]
<1>a. mine \in Word /\ theirs \in Word /\ remaining[s] \in Nat /\ remaining[s] >= 1
    BY Zenon DEF IInv, TypeOK, SpanInv, Load
<1>b. /\ RangeEnd(mine, theirs, remaining[s]) \in mine.at + 1 .. Capacity
      /\ RangeEnd(mine, theirs, remaining[s]) - mine.at <= remaining[s]
    BY <1>a DEF IInv, RingInv, RangeEnd, Word
<1>1. TypeOK'
    BY <1>a, <1>b DEF IInv, TypeOK, Load, Return, InCall, Word
<1>2. RingInv' /\ DataInv'
    <2>1. \A r \in Side : pc'[r] = "release" <=> pc[r] = "release"
        BY DEF Load, Return, IInv, TypeOK
    <2>2. RingInv'
        BY Zenon DEF Load, Return, IInv, RingInv, Ahead
    <2>3. DataInv'
        BY <2>1 DEF Load, Return, IInv, TypeOK, DataInv, Expected, Ahead, Dist,
                    Range
    <2> QED
        BY <2>2, <2>3, Zenon
<1>3. SpanInv'
    <2>1. CASE pc'[s] # "copy"
        BY <2>1, <1>a DEF IInv, TypeOK, SpanInv, Ahead, Load, Return
    <2>2. CASE pc'[s] = "copy"
        <3>1. /\ ~MustWait(s, mine, theirs)
              /\ ~SeesGone(s, mine, theirs)
              /\ pc' = [pc EXCEPT ![s] = "copy"]
              /\ end' = [end EXCEPT ![s] = RangeEnd(mine, theirs, remaining[s])]
              /\ UNCHANGED <<word, remaining, sent, received>>
            BY <2>2, Zenon DEF Load, Return, IInv, TypeOK
        <3>2. mine.drop = 0
            BY <1>a, Zenon DEF IInv, TypeOK, DropInv, Load, Leaving, Word
        <3>a. /\ word[P] \in Word /\ word[C] \in Word
              /\ word[P].at < Capacity /\ word[C].at < Capacity
              /\ Ahead \in 0 .. Capacity
            BY Zenon DEF IInv, TypeOK, RingInv
        <3>3. ASSUME s = C
              PROVE  RangeEnd(mine, theirs, remaining[s]) - mine.at <= Ahead
            <4>1. mine = word[C] /\ theirs = word[P] /\ s # P
                BY <3>3, Zenon
            <4>2. ~(word[C].at = word[P].at /\ word[C].rev = word[P].rev)
                BY <3>1, <3>2, <3>3, <3>a, <4>1, Zenon DEF MustWait, SeesGone, Word
            <4> QED
                BY <1>a, <3>a, <4>1, <4>2 DEF Ahead, RangeEnd, Word
        <3>4. ASSUME s = P
              PROVE  RangeEnd(mine, theirs, remaining[s]) - mine.at
                          <= Capacity - Ahead
            <4>1. mine = word[P] /\ theirs = word[C] /\ s # C
                BY <3>4, Zenon
            <4>2. ~(word[C].at = word[P].at /\ word[C].rev # word[P].rev)
                BY <3>1, <3>2, <3>4, <3>a, <4>1, Zenon DEF MustWait, SeesGone, Word
            <4>3. CASE word[C].at > word[P].at
                <5>1. Capacity - Ahead = word[C].at - word[P].at
                    BY <3>a, <4>3 DEF Ahead, Word
                <5> QED
                    BY <1>a, <3>a, <4>1, <4>3, <5>1 DEF RangeEnd, Word
            <4>4. CASE word[C].at <= word[P].at
                <5>a. word[C].rev = word[P].rev
                    BY <3>a, <4>2, <4>4 DEF Ahead, Word
                <5>1. Capacity - word[P].at <= Capacity - Ahead
                    BY <3>a, <5>a DEF Ahead, Word
                <5> QED
                    BY <1>b, <3>a, <4>1, <4>4, <5>1 DEF Word
            <4> QED
                BY <3>a, <4>3, <4>4 DEF Word
        <3>5. Ahead' = Ahead /\ Ahead \in Int /\ Capacity \in Int
            BY <3>1, <3>a DEF Ahead
        <3>6. \A r \in Side \ {s} : pc'[r] = pc[r] /\ end'[r] = end[r]
            BY <3>1, Zenon DEF IInv, TypeOK
        <3>7. end'[s] = RangeEnd(mine, theirs, remaining[s])
            BY <3>1, Zenon DEF IInv, TypeOK
        <3>8. /\ \A r \in Side : pc'[r] \in {"copy", "release"} =>
                    /\ word[r].at < end'[r]
                    /\ end'[r] - word[r].at <= remaining[r]
              /\ \A r \in Side : pc'[r] \in {"load", "wait", "sleep"} =>
                    remaining[r] >= 1
            <4>1. /\ word[s].at < end'[s]
                  /\ end'[s] - word[s].at <= remaining[s]
                BY <1>a, <1>b, <3>7 DEF Word
            <4> QED
                BY <2>2, <3>6, <4>1, Zenon DEF IInv, SpanInv
        <3>9. pc'[C] \in {"copy", "release"} => end'[C] - word[C].at <= Ahead
            BY <3>3, <3>6, <3>7, Zenon DEF IInv, SpanInv
        <3>10. pc'[P] \in {"copy", "release"} =>
                  end'[P] - word[P].at <= Capacity - Ahead
            BY <3>4, <3>6, <3>7, Zenon DEF IInv, SpanInv
        <3> QED
            BY <3>1, <3>5, <3>8, <3>9, <3>10, Zenon DEF SpanInv
    <2> QED
        BY <2>1, <2>2, Zenon
<1>4. DropInv' /\ ArcInv'
    BY DEF IInv, TypeOK, DropInv, ArcInv, Load, Return, Leaving
<1>5. WaitInv' /\ NoLostWakeup'
    BY DEF IInv, TypeOK, WaitInv, NoLostWakeup, MustWait, Load, Return
<1>6. ResultInv'
    BY DEF IInv, TypeOK, ResultInv, Load, Return, InCall
<1>7. EndsTold'
    <2>1. UNCHANGED <<word, sent, received>>
        BY Zenon DEF Load
    <2>2. CASE result'[s] = "gone" /\ pc'[s] = "idle"
        <3>1. SeesGone(s, mine, theirs) /\ UNCHANGED result[Other(s)]
            BY <2>2, Zenon DEF Load, Return, IInv, TypeOK, ResultInv, InCall
        <3>2. s = C => received = sent
            BY <3>1, <1>a DEF IInv, TypeOK, RingInv, Ahead, SeesGone, Word
        <3> QED
            BY <2>1, <3>1, <3>2, Zenon DEF IInv, EndsTold, SeesGone
    <2>3. CASE ~(result'[s] = "gone" /\ pc'[s] = "idle")
        BY <2>1, <2>3 DEF Load, Return, IInv, TypeOK, ResultInv, EndsTold, InCall
    <2> QED
        BY <2>2, <2>3, Zenon
<1> QED
    BY <1>1, <1>2, <1>3, <1>4, <1>5, <1>6, <1>7, Zenon DEF IInv

-----------------------------------------------------------------------------
(* Steps on the slots and the words.                                       *)

\* The producer's range is free and the consumer's range is filled.
LEMMA RangesPlaced ==
    ASSUME IInv
    PROVE  /\ pc[P] \in {"copy", "release"} => \A i \in Range(P) :
                 i \in Slots /\ ~(Dist(i) < Ahead)
           /\ pc[C] \in {"copy", "release"} => \A i \in Range(C) :
                 i \in Slots /\ Dist(i) = i - word[C].at /\ Dist(i) < Ahead
<1> USE SpscAssumption, SideCases
<1>a. /\ word[P] \in Word /\ word[C] \in Word
      /\ word[P].at < Capacity /\ word[C].at < Capacity
      /\ Ahead \in 0 .. Capacity
      /\ end[P] \in 0 .. Capacity /\ end[C] \in 0 .. Capacity
    BY Zenon DEF IInv, TypeOK, RingInv
<1>1. ASSUME pc[P] \in {"copy", "release"}, NEW i \in Range(P)
      PROVE  i \in Slots /\ ~(Dist(i) < Ahead)
    <2>1. end[P] - word[P].at <= Capacity - Ahead
        BY <1>1, Zenon DEF IInv, SpanInv
    <2>2. i \in Int /\ word[P].at <= i /\ i < end[P]
        BY <1>1, <1>a DEF Range, Word
    <2>3. CASE word[P].rev = word[C].rev
        BY <1>a, <2>1, <2>2, <2>3 DEF Ahead, Dist, Slots, Word
    <2>4. CASE word[P].rev # word[C].rev
        BY <1>a, <2>1, <2>2, <2>4 DEF Ahead, Dist, Slots, Word
    <2> QED
        BY <2>3, <2>4, Zenon
<1>2. ASSUME pc[C] \in {"copy", "release"}, NEW i \in Range(C)
      PROVE  i \in Slots /\ Dist(i) = i - word[C].at /\ Dist(i) < Ahead
    <2>1. end[C] - word[C].at <= Ahead
        BY <1>2, Zenon DEF IInv, SpanInv
    <2> QED
        BY <1>2, <1>a, <2>1 DEF Dist, Slots, Range, Word
<1> QED
    BY <1>1, <1>2, Zenon

LEMMA FillStep ==
    ASSUME IInv, Fill
    PROVE  IInv'
<1> USE SpscAssumption, SideCases
<1>1. TypeOK'
    BY DEF IInv, TypeOK, Fill, InCall, Leaving, Range, Word
<1>2. RingInv'
    BY Zenon DEF Fill, IInv, RingInv, Ahead
<1>3. SpanInv'
    BY Zenon DEF IInv, TypeOK, SpanInv, Ahead, Fill
<1>4. DataInv'
    <2>1. ASSUME arc # "deleted", NEW i \in Slots PROVE data'[i] = Expected(i)'
        <3>1. i \in Range(P) => ~(Dist(i) < Ahead)
            BY RangesPlaced, Zenon DEF Fill
        <3>2. /\ data'[i] = IF i \in Range(P) THEN sent + 1 + (i - word[P].at)
                            ELSE data[i]
              /\ data[i] = Expected(i)
              /\ pc'[P] = "release" /\ pc[P] = "copy" /\ pc'[C] = pc[C]
              /\ Range(P)' = Range(P) /\ Range(C)' = Range(C)
              /\ Dist(i)' = Dist(i) /\ Ahead' = Ahead
              /\ UNCHANGED <<word, sent, received>>
            BY <2>1, Zenon DEF Fill, IInv, TypeOK, DataInv, Range, Dist, Ahead
        <3> QED
            BY <3>1, <3>2, Zenon DEF Expected
    <2> QED
        BY <2>1, Zenon DEF DataInv, Fill
<1>5. DropInv' /\ ArcInv'
    BY Zenon DEF IInv, TypeOK, DropInv, ArcInv, Fill, Leaving
<1>6. WaitInv' /\ NoLostWakeup'
    BY DEF IInv, TypeOK, WaitInv, NoLostWakeup, MustWait, Fill
<1>7. ResultInv' /\ EndsTold'
    BY DEF IInv, TypeOK, ResultInv, EndsTold, Fill, InCall
<1> QED
    BY <1>1, <1>2, <1>3, <1>4, <1>5, <1>6, <1>7, Zenon DEF IInv

LEMMA DrainStep ==
    ASSUME IInv, Drain
    PROVE  IInv'
<1> USE SpscAssumption, SideCases
<1>1. TypeOK'
    BY Zenon DEF IInv, TypeOK, Drain, InCall, Leaving, Raw
<1>2. RingInv'
    BY Zenon DEF Drain, IInv, RingInv, Ahead
<1>3. SpanInv'
    BY Zenon DEF IInv, TypeOK, SpanInv, Ahead, Drain
<1>4. DataInv'
    <2>1. ASSUME arc # "deleted", NEW i \in Slots PROVE data'[i] = Expected(i)'
        <3>1. i \in Range(C) => Dist(i) < Ahead
            BY RangesPlaced, Zenon DEF Drain
        <3>2. /\ data'[i] = IF i \in Range(C) THEN Raw ELSE data[i]
              /\ data[i] = Expected(i)
              /\ pc'[C] = "release" /\ pc[C] = "copy" /\ pc'[P] = pc[P]
              /\ Range(P)' = Range(P) /\ Range(C)' = Range(C)
              /\ Dist(i)' = Dist(i) /\ Ahead' = Ahead
              /\ UNCHANGED <<word, sent, received>>
            BY <2>1, Zenon DEF Drain, IInv, TypeOK, DataInv, Range, Dist, Ahead
        <3> QED
            BY <3>1, <3>2, Zenon DEF Expected
    <2> QED
        BY <2>1, Zenon DEF DataInv, Drain
<1>5. DropInv' /\ ArcInv'
    BY DEF IInv, TypeOK, DropInv, ArcInv, Drain, Leaving
<1>6. WaitInv' /\ NoLostWakeup'
    BY DEF IInv, TypeOK, WaitInv, NoLostWakeup, MustWait, Drain
<1>7. ResultInv' /\ EndsTold'
    BY Zenon DEF IInv, TypeOK, ResultInv, EndsTold, Drain, InCall
<1> QED
    BY <1>1, <1>2, <1>3, <1>4, <1>5, <1>6, <1>7, Zenon DEF IInv

\* The words after release(): only the own one moves, to the end of the
\* range or to the next revolution.
LEMMA ReleaseWord ==
    ASSUME Fits, IInv, NEW s \in Side, Release(s)
    PROVE  /\ word' \in [Side -> Word]
           /\ word'[Other(s)] = word[Other(s)]
           /\ word'[s].at = IF end[s] = Capacity THEN 0 ELSE end[s]
           /\ word'[s].rev = IF end[s] = Capacity THEN 1 - word[s].rev
                             ELSE word[s].rev
           /\ word'[s].drop = 0
           /\ word[s].drop = 0
<1> USE SpscAssumption, SideCases
<1>1. word[s] \in Word /\ end[s] \in 1 .. Capacity /\ word \in [Side -> Word]
    BY DEF IInv, TypeOK, SpanInv, Release, Word
<1>2. NextWord(word[s], end[s]) \in Word
    BY <1>1, NextWordFits DEF Fits, Word
<1>3. word' = [word EXCEPT ![s] = NextWord(word[s], end[s])]
    BY Zenon DEF Release
<1>4. word[s].drop = 0
    BY <1>1, Zenon DEF IInv, DropInv, Release, Leaving, Word
<1> HIDE SpscAssumption
<1> QED
    BY <1>1, <1>2, <1>3, <1>4, NextWordFits

\* The consumer's release() takes its items out of the ring.
LEMMA ReleaseConsumer ==
    ASSUME Fits, IInv, Release(C)
    PROVE  RingInv' /\ SpanInv' /\ DataInv'
<1> USE SpscAssumption, SideCases
<1> DEFINE got == end[C] - word[C].at
<1>a. /\ word[P] \in Word /\ word[C] \in Word
      /\ word[P].at < Capacity /\ word[C].at < Capacity
      /\ Ahead \in 0 .. Capacity /\ Ahead = sent - received
      /\ end[C] \in 0 .. Capacity /\ sent \in Nat /\ received \in Nat
      /\ got \in 1 .. Ahead /\ got <= remaining[C] /\ remaining[C] \in Nat
    BY DEF IInv, TypeOK, RingInv, SpanInv, Release, Word
<1>b. /\ word'[P] = word[P]
      /\ word'[C].at = IF end[C] = Capacity THEN 0 ELSE end[C]
      /\ word'[C].rev = IF end[C] = Capacity THEN 1 - word[C].rev
                        ELSE word[C].rev
    BY ReleaseWord, Zenon
<1>c. /\ pc[C] = "release" /\ pc' = [pc EXCEPT ![C] = "notify"]
      /\ remaining' = [remaining EXCEPT ![C] = @ - got]
      /\ sent' = sent /\ received' = received + got
      /\ UNCHANGED <<data, arc, end>>
    BY Zenon DEF Release
<1>d. pc'[C] = "notify" /\ pc'[P] = pc[P] /\ remaining'[P] = remaining[P]
    BY <1>c, Zenon DEF IInv, TypeOK
<1>e. Ahead' = Ahead - got
    BY <1>a, <1>b DEF Ahead, Word
<1>1. RingInv'
    <2>1. word'[P].at < Capacity /\ word'[C].at < Capacity
        BY <1>a, <1>b
    <2>2. Ahead' \in 0 .. Capacity /\ Ahead' = sent' - received'
        BY <1>a, <1>c, <1>e
    <2> QED
        BY <2>1, <2>2, Zenon DEF RingInv
<1>2. SpanInv'
    <2>1. pc[P] \in {"copy", "release"} => end[P] - word[P].at <= Capacity - Ahead'
        BY <1>a, <1>e DEF IInv, TypeOK, SpanInv, Word
    <2> QED
        BY <1>b, <1>c, <1>d, <2>1, Zenon DEF IInv, SpanInv
<1>3. DataInv'
    <2>1. ASSUME arc # "deleted", NEW i \in Slots PROVE data[i] = Expected(i)'
        <3>a. i \in Int /\ 0 <= i /\ i < Capacity
            BY DEF Slots
        <3>1. /\ data[i] = Expected(i)
              /\ Range(P)' = Range(P)
            BY <2>1, <1>b, <1>c, Zenon DEF IInv, DataInv, Range
        <3>2. CASE i \in Range(C)
            <4>1. Dist(i) = i - word[C].at /\ Dist(i) < Ahead
                BY <3>2, <1>c, RangesPlaced, Zenon
            <4>2. ~(Dist(i)' < Ahead')
                BY <1>a, <1>b, <1>e, <3>a, <3>2, <4>1 DEF Dist, Range, Word
            <4>3. pc[P] = "release" => i \notin Range(P)
                BY <4>1, RangesPlaced, Zenon
            <4> QED
                BY <1>c, <1>d, <3>1, <3>2, <4>1, <4>2, <4>3, Zenon DEF Expected
        <3>3. CASE i \notin Range(C)
            <4>1. i < word[C].at \/ i >= end[C]
                BY <1>a, <3>a, <3>3 DEF Range, Word
            <4>2. Dist(i)' = Dist(i) - got /\ Dist(i) \in Nat
                BY <1>a, <1>b, <3>a, <4>1 DEF Dist, Word
            <4>3. Dist(i)' < Ahead' <=> Dist(i) < Ahead
                BY <1>a, <1>e, <4>2
            <4>4. received' + 1 + Dist(i)' = received + 1 + Dist(i)
                BY <1>a, <1>c, <4>2
            <4> QED
                BY <1>b, <1>c, <1>d, <3>1, <3>3, <4>3, <4>4, Zenon DEF Expected
        <3> QED
            BY <3>2, <3>3, Zenon
    <2> QED
        BY <1>c, <2>1, Zenon DEF DataInv
<1> QED
    BY <1>1, <1>2, <1>3, Zenon

\* The producer's release() adds its items behind those of the ring.
LEMMA ReleaseProducer ==
    ASSUME Fits, IInv, Release(P)
    PROVE  RingInv' /\ SpanInv' /\ DataInv'
<1> USE SpscAssumption, SideCases
<1> DEFINE got == end[P] - word[P].at
<1>a. /\ word[P] \in Word /\ word[C] \in Word
      /\ word[P].at < Capacity /\ word[C].at < Capacity
      /\ Ahead \in 0 .. Capacity /\ Ahead = sent - received
      /\ end[P] \in 0 .. Capacity /\ sent \in Nat /\ received \in Nat
      /\ got \in 1 .. Capacity - Ahead
      /\ got <= remaining[P] /\ remaining[P] \in Nat
    BY DEF IInv, TypeOK, RingInv, SpanInv, Release, Word
<1>b. /\ word'[C] = word[C]
      /\ word'[P].at = IF end[P] = Capacity THEN 0 ELSE end[P]
      /\ word'[P].rev = IF end[P] = Capacity THEN 1 - word[P].rev
                        ELSE word[P].rev
    BY ReleaseWord, Zenon
<1>c. /\ pc[P] = "release" /\ pc' = [pc EXCEPT ![P] = "notify"]
      /\ remaining' = [remaining EXCEPT ![P] = @ - got]
      /\ sent' = sent + got /\ received' = received
      /\ UNCHANGED <<data, arc, end>>
    BY Zenon DEF Release
<1>d. pc'[P] = "notify" /\ pc'[C] = pc[C] /\ remaining'[C] = remaining[C]
    BY <1>c, Zenon DEF IInv, TypeOK
<1>e. Ahead' = Ahead + got
    BY <1>a, <1>b DEF Ahead, Word
<1>1. RingInv'
    <2>1. word'[P].at < Capacity /\ word'[C].at < Capacity
        BY <1>a, <1>b
    <2>2. Ahead' \in 0 .. Capacity /\ Ahead' = sent' - received'
        BY <1>a, <1>c, <1>e
    <2> QED
        BY <2>1, <2>2, Zenon DEF RingInv
<1>2. SpanInv'
    <2>1. pc[C] \in {"copy", "release"} => end[C] - word[C].at <= Ahead'
        BY <1>a, <1>e DEF IInv, TypeOK, SpanInv, Word
    <2> QED
        BY <1>b, <1>c, <1>d, <2>1, Zenon DEF IInv, SpanInv
<1>3. DataInv'
    <2>1. ASSUME arc # "deleted", NEW i \in Slots PROVE data[i] = Expected(i)'
        <3>a. i \in Int /\ 0 <= i /\ i < Capacity
            BY DEF Slots
        <3>1. /\ data[i] = Expected(i)
              /\ Range(C)' = Range(C) /\ Dist(i)' = Dist(i)
            BY <2>1, <1>b, <1>c, Zenon DEF IInv, DataInv, Range, Dist
        <3>2. CASE i \in Range(P)
            <4>1. ~(Dist(i) < Ahead)
                BY <3>2, <1>c, RangesPlaced, Zenon
            <4>2. word[P].at <= i /\ i < end[P]
                BY <1>a, <3>2 DEF Range, Word
            <4>3. Dist(i) = Ahead + (i - word[P].at)
                BY <1>a, <3>a, <4>1, <4>2 DEF Ahead, Dist, Word
            <4>4. Dist(i) < Ahead' /\ received + 1 + Dist(i)
                                          = sent + 1 + (i - word[P].at)
                BY <1>a, <1>e, <3>a, <4>2, <4>3 DEF Word
            <4>5. pc[C] = "release" => i \notin Range(C)
                BY <4>1, RangesPlaced, Zenon
            <4> QED
                BY <1>c, <1>d, <3>1, <3>2, <4>1, <4>4, <4>5, Zenon DEF Expected
        <3>3. CASE i \notin Range(P)
            <4>1. i < word[P].at \/ i >= end[P]
                BY <1>a, <3>a, <3>3 DEF Range, Word
            <4>2. Dist(i) < Ahead' <=> Dist(i) < Ahead
                <5>1. CASE word[P].rev = word[C].rev
                    BY <1>a, <1>e, <3>a, <4>1, <5>1 DEF Ahead, Dist, Word
                <5>2. CASE word[P].rev # word[C].rev
                    BY <1>a, <1>e, <3>a, <4>1, <5>2 DEF Ahead, Dist, Word
                <5> QED
                    BY <5>1, <5>2, Zenon
            <4> QED
                BY <1>b, <1>c, <1>d, <3>1, <3>3, <4>2, Zenon DEF Expected
        <3> QED
            BY <3>2, <3>3, Zenon
    <2> QED
        BY <1>c, <2>1, Zenon DEF DataInv
<1> QED
    BY <1>1, <1>2, <1>3, Zenon

LEMMA ReleaseStep ==
    ASSUME Fits, IInv, NEW s \in Side, Release(s)
    PROVE  IInv'
<1> USE SpscAssumption, SideCases
<1>1. TypeOK'
    <2>1. /\ end[s] - word[s].at \in Nat
          /\ remaining[s] - (end[s] - word[s].at) \in Nat
        BY DEF IInv, TypeOK, SpanInv, Release, Word
    <2>2. /\ word' \in [Side -> Word]
          /\ pc' \in [Side -> {"idle"} \cup InCall \cup Leaving]
        BY ReleaseWord, Zenon DEF IInv, TypeOK, Release, InCall
    <2>3. /\ remaining' \in [Side -> Nat]
          /\ sent' \in Nat /\ received' \in Nat
        BY <2>1 DEF IInv, TypeOK, Release
    <2> QED
        BY <2>2, <2>3, Zenon DEF IInv, TypeOK, Release
<1>2. RingInv' /\ SpanInv' /\ DataInv'
    BY ReleaseConsumer, ReleaseProducer, Zenon
<1>3. DropInv' /\ ArcInv'
    <2>1. /\ word'[s].drop = 0 /\ word'[Other(s)] = word[Other(s)]
          /\ pc[s] = "release" /\ pc'[s] = "notify"
          /\ pc'[Other(s)] = pc[Other(s)] /\ arc' = arc
        BY ReleaseWord, Zenon DEF Release, IInv, TypeOK
    <2> QED
        BY <2>1 DEF IInv, DropInv, ArcInv, Leaving
<1>4. WaitInv' /\ NoLostWakeup'
    BY ReleaseWord DEF IInv, TypeOK, WaitInv, NoLostWakeup, Release
<1>5. ResultInv'
    BY DEF IInv, TypeOK, ResultInv, Release, InCall
<1>6. EndsTold'
    <2>1. result[s] = "none" /\ word[s].drop = 0 /\ word'[Other(s)] = word[Other(s)]
        BY ReleaseWord, Zenon DEF IInv, ResultInv, Release, InCall
    <2> QED
        BY <2>1 DEF IInv, TypeOK, EndsTold, Release
<1> QED
    BY <1>1, <1>2, <1>3, <1>4, <1>5, <1>6, Zenon DEF IInv

LEMMA DropStoreStep ==
    ASSUME IInv, NEW s \in Side, DropStore(s)
    PROVE  IInv'
<1> USE SpscAssumption, SideCases
<1>a. /\ \A r \in Side : word'[r].at = word[r].at /\ word'[r].rev = word[r].rev
      /\ word'[s].drop = 1 /\ word'[Other(s)] = word[Other(s)]
      /\ word' \in [Side -> Word]
    BY DEF IInv, TypeOK, DropStore, Word
<1>1. TypeOK'
    BY <1>a, Zenon DEF IInv, TypeOK, DropStore, Leaving
<1>2. Ahead' = Ahead /\ RingInv'
    BY <1>a, Zenon DEF IInv, RingInv, Ahead, DropStore
<1>3. SpanInv'
    BY <1>a, <1>2, Zenon DEF IInv, TypeOK, SpanInv, DropStore
<1>4. DataInv'
    BY <1>a, <1>2 DEF IInv, TypeOK, DataInv, Expected, Dist, Range, DropStore
<1>5. DropInv' /\ ArcInv'
    BY <1>a DEF IInv, TypeOK, DropInv, ArcInv, DropStore, Leaving
<1>6. WaitInv' /\ NoLostWakeup'
    BY <1>a DEF IInv, TypeOK, WaitInv, NoLostWakeup, DropStore
<1>7. ResultInv' /\ EndsTold'
    BY <1>a DEF IInv, TypeOK, ResultInv, EndsTold, DropStore, InCall
<1> QED
    BY <1>1, <1>2, <1>3, <1>4, <1>5, <1>6, <1>7, Zenon DEF IInv

LEMMA DeleteStep ==
    ASSUME IInv, NEW s \in Side, Delete(s)
    PROVE  IInv'
<1> USE SpscAssumption, SideCases
<1>1. TypeOK'
    BY Zenon DEF IInv, TypeOK, Delete, Leaving, Raw
<1>2. RingInv' /\ DataInv'
    BY Zenon DEF IInv, RingInv, Ahead, DataInv, Delete
<1>3. SpanInv'
    BY Zenon DEF IInv, TypeOK, SpanInv, Ahead, Delete
<1>4. DropInv' /\ ArcInv'
    BY DEF IInv, TypeOK, DropInv, ArcInv, Delete, Leaving
<1>5. WaitInv' /\ NoLostWakeup'
    BY DEF IInv, TypeOK, WaitInv, NoLostWakeup, MustWait, Delete
<1>6. ResultInv' /\ EndsTold'
    BY Zenon DEF IInv, TypeOK, ResultInv, EndsTold, Delete, InCall
<1> QED
    BY <1>1, <1>2, <1>3, <1>4, <1>5, <1>6, Zenon DEF IInv

-----------------------------------------------------------------------------
(* The invariant and what follows from it.                                 *)

LEMMA Inductive ==
    ASSUME Fits, IInv, [Next]_vars
    PROVE  IInv'
<1>1. CASE UNCHANGED vars
    <2> USE <1>1 DEF vars
    <2>1. TypeOK' /\ RingInv' /\ SpanInv'
        BY Zenon DEF IInv, TypeOK, RingInv, SpanInv, Ahead
    <2>2. DataInv'
        BY Zenon DEF IInv, DataInv, Expected, Ahead, Dist, Range
    <2>3. DropInv' /\ ArcInv' /\ WaitInv'
        BY Zenon DEF IInv, DropInv, ArcInv, WaitInv, MustWait
    <2>4. NoLostWakeup' /\ ResultInv' /\ EndsTold'
        BY Zenon DEF IInv, NoLostWakeup, MustWait, ResultInv, EndsTold
    <2> QED
        BY <2>1, <2>2, <2>3, <2>4, Zenon DEF IInv
<1>2. ASSUME NEW s \in Side, Proceed(s) PROVE IInv'
    BY <1>2, LoadStep, WaitStep, ReleaseStep, NotifyStep, DropNotifyStep,
       ExchangeStep, DeleteStep, Zenon DEF Proceed
<1>3. ASSUME NEW s \in Side, NEW n \in Counts,
             NEW policy \in {"forever", "initially"}, Call(s, n, policy)
      PROVE  IInv'
    BY <1>3, CallStep, Zenon
<1>4. ASSUME NEW s \in Side, WakeSpuriously(s) \/ DropStore(s) PROVE IInv'
    BY <1>4, WakeSpuriouslyStep, DropStoreStep, Zenon
<1>5. CASE Fill \/ FillThrows \/ Drain
    BY <1>5, FillStep, FillThrowsStep, DrainStep, Zenon
<1> QED
    BY <1>1, <1>2, <1>3, <1>4, <1>5, Zenon DEF Next

\* ~arc() finds its items by the two words.
LEMMA DoomedRight ==
    ASSUME IInv, NEW s \in Side, pc[s] = "delete"
    PROVE  pc[Other(s)] = "gone" /\ {i \in Slots : data[i] # Raw} = Doomed
<1> USE SpscAssumption, SideCases
<1>1. arc = "half" /\ pc[Other(s)] = "gone"
    BY Zenon DEF IInv, TypeOK, ArcInv
<1>2. \A r \in Side : pc[r] # "release"
    BY <1>1, Zenon
<1>a. /\ word[P] \in Word /\ word[C] \in Word
      /\ word[P].at < Capacity /\ word[C].at < Capacity
      /\ Ahead \in 0 .. Capacity /\ received \in Nat
    BY Zenon DEF IInv, TypeOK, RingInv
<1>3. ASSUME NEW i \in Slots PROVE data[i] # Raw <=> i \in Doomed
    <2>1. i \in Int /\ 0 <= i /\ i < Capacity
        BY DEF Slots
    <2>2. Dist(i) \in Nat
        BY <1>a, <2>1 DEF Dist, Word
    <2>3. data[i] = IF Dist(i) < Ahead THEN received + 1 + Dist(i) ELSE 0
        BY <1>1, <1>2, Zenon DEF IInv, DataInv, Expected, Raw
    <2>4. data[i] # Raw <=> Dist(i) < Ahead
        BY <1>a, <2>2, <2>3 DEF Raw
    <2>5. CASE word[P].at > word[C].at
        BY <1>a, <2>1, <2>4, <2>5 DEF Ahead, Dist, Doomed, Word
    <2>6. CASE word[P].at <= word[C].at /\ word[P].rev # word[C].rev
        BY <1>a, <2>1, <2>4, <2>6 DEF Ahead, Dist, Doomed, Word
    <2>7. CASE word[P].at <= word[C].at /\ word[P].rev = word[C].rev
        BY <1>a, <2>1, <2>4, <2>7 DEF Ahead, Dist, Doomed, Word
    <2> QED
        BY <1>a, <2>5, <2>6, <2>7 DEF Word
<1>4. Doomed \subseteq Slots
    <2>1. CASE word[P].at > word[C].at
        BY <1>a, <2>1 DEF Doomed, Slots, Word
    <2>2. CASE word[P].at <= word[C].at /\ word[P].rev # word[C].rev
        BY <1>a, <2>2 DEF Doomed, Slots, Word
    <2>3. CASE word[P].at <= word[C].at /\ word[P].rev = word[C].rev
        BY <1>a, <2>3 DEF Doomed, Word
    <2> QED
        BY <1>a, <2>1, <2>2, <2>3 DEF Word
<1> QED
    BY <1>1, <1>3, <1>4, Zenon

LEMMA InvariantsFollow ==
    IInv => TypeOK /\ SlotsRight /\ DeletedRight /\ EndsTold /\ NoLostWakeup
<1> SUFFICES ASSUME IInv
             PROVE  TypeOK /\ SlotsRight /\ DeletedRight /\ EndsTold /\ NoLostWakeup
    BY Zenon
<1> USE SideCases
<1>1. ASSUME pc[C] = "copy", NEW i \in Range(C)
      PROVE  data[i] = received + 1 + (i - word[C].at)
    <2>1. i \in Slots /\ Dist(i) = i - word[C].at /\ Dist(i) < Ahead
        BY <1>1, RangesPlaced, Zenon
    <2>2. arc # "deleted"
        BY <1>1, Zenon DEF IInv, ArcInv
    <2> QED
        BY <1>1, <2>1, <2>2, Zenon DEF IInv, DataInv, Expected
<1>2. ASSUME pc[P] = "copy", NEW i \in Range(P)
      PROVE  data[i] = Raw
    <2>1. i \in Slots /\ ~(Dist(i) < Ahead)
        BY <1>2, RangesPlaced, Zenon
    <2>2. arc # "deleted"
        BY <1>2, Zenon DEF IInv, ArcInv
    <2> QED
        BY <1>2, <2>1, <2>2, Zenon DEF IInv, DataInv, Expected
<1>3. DeletedRight
    BY DoomedRight, Zenon DEF DeletedRight, IInv, ArcInv
<1> QED
    BY <1>1, <1>2, <1>3, Zenon DEF SlotsRight, IInv

LEMMA AlwaysIInv ==
    ASSUME Fits
    PROVE  Spec => []IInv
<1>1. IInv /\ [Next]_vars => IInv'
    BY Inductive, Zenon
<1> QED
    BY <1>1, InitIInv, PTL DEF Spec

\* The values stay in range: no position leaves the ring, and the count of
\* items left to move never goes below zero (acquire(), release()).
THEOREM SpscType ==
    ASSUME Fits
    PROVE  Spec => []TypeOK
BY AlwaysIInv, InvariantsFollow, PTL

\* For every capacity that fits the mask, the consumer moves out exactly the
\* next items in the order they were sent, and the producer builds items
\* only in raw slots (acquire(), push_n(), pop_n()).
THEOREM SlotsAlwaysRight ==
    ASSUME Fits
    PROVE  Spec => []SlotsRight
BY AlwaysIInv, InvariantsFollow, PTL

\* The last side alone deletes the arc, and ~arc() destroys exactly the
\* items left in the ring.
THEOREM DeletedAlwaysRight ==
    ASSUME Fits
    PROVE  Spec => []DeletedRight
BY AlwaysIInv, InvariantsFollow, PTL

\* A side is told the channel ended only when the other is gone, and the
\* consumer only when every item was received.
THEOREM EndsAlwaysTold ==
    ASSUME Fits
    PROVE  Spec => []EndsTold
BY AlwaysIInv, InvariantsFollow, PTL

\* A sleeping side still has to wait or is about to be woken.
THEOREM WakeupsNeverLost ==
    ASSUME Fits
    PROVE  Spec => []NoLostWakeup
BY AlwaysIInv, InvariantsFollow, PTL

=============================================================================
