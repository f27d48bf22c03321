-------------------------------- MODULE Spsc --------------------------------
(***************************************************************************)
(* til::spsc (src/inc/til/spsc.h): a bounded channel between exactly one   *)
(* producer and one consumer, without a lock.  A shared arc holds a ring   *)
(* of raw memory and two atomic words, one per side.  A word packs a       *)
(* position, a revolution flag that flips each time the side passes the    *)
(* end of the ring, and a drop flag that is set when the side goes away.   *)
(* It is modelled as a record of these three fields; words are loaded and  *)
(* stored whole, each in one step.                                         *)
(*                                                                         *)
(* Both sides run the same acquire() and release(), so one action here     *)
(* takes the side as its parameter.  Loading the other side's word,        *)
(* comparing inside WaitOnAddress, touching the slots, storing the own     *)
(* word and waking the other side are separate steps.  Memory is           *)
(* sequentially consistent in this model.                                  *)
(*                                                                         *)
(* The items the producer sends are the numbers 1, 2, 3, ... in order, and *)
(* a slot holds an item or Raw (no object lives there).                    *)
(***************************************************************************)
EXTENDS Integers

CONSTANTS
    Capacity,       \* slots of the ring: the argument of channel()
    position_mask,  \* the largest position a word can hold (2^30 - 1)
    Counts,         \* how many items one call asks for (1: emplace and pop)
    MaxItems        \* bound: items sent in one behaviour

\* channel() refuses only a capacity of zero.  The upper bound is the
\* range in which Splice below is the code's bitwise or: a position never
\* reaches the drop flag.
ASSUME SpscAssumption ==
    /\ position_mask \in Nat
    /\ Capacity \in 1 .. 2 * (position_mask + 1)
    /\ Counts \subseteq Nat \ {0}
    /\ MaxItems \in Nat

P == "producer"
C == "consumer"
Side == {P, C}
Other(s) == IF s = P THEN C ELSE P

Raw == 0
Slots == 0 .. Capacity - 1
Word == [at : 0 .. position_mask, rev : {0, 1}, drop : {0, 1}]

VARIABLES
    data,       \* the ring
    word,       \* _producer and _consumer
    arc,        \* "whole", "half" (_eitherSideDropped), or "deleted"
    pc,         \* where each side is in its call
    mode,       \* "forever" / "initially" while blocking, "no" when not
    remaining,  \* items the call still has to move
    end,        \* end of the acquired range; it begins at the own position
    seen,       \* theirPos, the word the side compared and waits on
    result,     \* "ok" or "gone" once a call returned, "none" before
    sent,       \* items published by the producer so far
    received    \* items taken by the consumer so far

vars == <<data, word, arc, pc, mode, remaining, end, seen, result,
          sent, received>>

\* A side is outside the library, in a call, or on its way out.
InCall == {"load", "wait", "sleep", "copy", "release", "notify"}
Leaving == {"dropNotify", "exchange", "delete", "gone"}

TypeOK ==
    /\ data \in [Slots -> Nat]
    /\ word \in [Side -> Word]
    /\ arc \in {"whole", "half", "deleted"}
    /\ pc \in [Side -> {"idle"} \cup InCall \cup Leaving]
    /\ mode \in [Side -> {"forever", "initially", "no"}]
    /\ remaining \in [Side -> Nat]
    /\ end \in [Side -> 0 .. Capacity]
    /\ seen \in [Side -> Word]
    /\ result \in [Side -> {"none", "ok", "gone"}]
    /\ sent \in Nat
    /\ received \in Nat

Init ==
    /\ data = [i \in Slots |-> Raw]
    /\ word = [s \in Side |-> [at |-> 0, rev |-> 0, drop |-> 0]]
    /\ arc = "whole"
    /\ pc = [s \in Side |-> "idle"]
    /\ mode = [s \in Side |-> "no"]
    /\ remaining = [s \in Side |-> 0]
    /\ end = [s \in Side |-> 0]
    /\ seen = word
    /\ result = [s \in Side |-> "none"]
    /\ sent = 0
    /\ received = 0

-----------------------------------------------------------------------------
(* The arithmetic of acquire().                                            *)

\* myPos ^ theirPos equals waitMask: the revolution flag alone for the
\* producer (the ring is full), nothing for the consumer (it is empty).
MustWait(s, mine, theirs) ==
    /\ mine.at = theirs.at
    /\ mine.drop = theirs.drop
    /\ (mine.rev = theirs.rev) <=> (s = C)

\* Mutant: the consumer stops as soon as it sees the drop flag.
SeesGoneEarly(s, mine, theirs) == theirs.drop = 1

\* The other side is gone, and for the consumer also nothing is left.
SeesGone(s, mine, theirs) ==
    /\ theirs.drop = 1
    /\ \/ s = P
       \/ mine.at = theirs.at /\ mine.rev = theirs.rev

\* The acquired range: up to the other side or to the end of the ring,
\* and no more than asked for.
RangeEnd(mine, theirs, slots) ==
    LET limit == IF theirs.at > mine.at THEN theirs.at ELSE Capacity
    IN  IF mine.at + slots < limit THEN mine.at + slots ELSE limit

\* end | revolution.
Splice(e, r) ==
    IF e <= position_mask
    THEN [at |-> e, rev |-> r, drop |-> 0]
    ELSE [at |-> e - (position_mask + 1), rev |-> 1, drop |-> 0]

\* Mutant: the revolution flag is not flipped at the end of the ring.
NextWordFlat(mine, e) ==
    IF e # Capacity THEN Splice(e, mine.rev) ELSE Splice(0, mine.rev)

\* acquisition.next, the word that release() will store.
NextWord(mine, e) ==
    IF e # Capacity THEN Splice(e, mine.rev) ELSE Splice(0, 1 - mine.rev)

-----------------------------------------------------------------------------
(* emplace / push_n and pop / pop_n.                                       *)

Call(s, n, policy) ==
    /\ pc[s] = "idle"
    /\ n <= position_mask
    /\ s = P => sent + n <= MaxItems
    /\ pc' = [pc EXCEPT ![s] = "load"]
    /\ mode' = [mode EXCEPT ![s] = policy]
    /\ remaining' = [remaining EXCEPT ![s] = n]
    /\ result' = [result EXCEPT ![s] = "none"]
    /\ UNCHANGED <<data, word, arc, end, seen, sent, received>>

Return(s, r) ==
    /\ pc' = [pc EXCEPT ![s] = "idle"]
    /\ result' = [result EXCEPT ![s] = r]
    /\ UNCHANGED <<end, seen>>

\* One round of acquire(): load the other side's word and decide on it.
Load(s) ==
    LET mine == word[s]
        theirs == word[Other(s)]
    IN  /\ pc[s] = "load"
        /\ \/ /\ MustWait(s, mine, theirs)
              /\ mode[s] # "no"
              /\ pc' = [pc EXCEPT ![s] = "wait"]
              /\ seen' = [seen EXCEPT ![s] = theirs]
              /\ UNCHANGED <<end, result>>
           \/ /\ MustWait(s, mine, theirs)
              /\ mode[s] = "no"
              /\ Return(s, "ok")
           \/ /\ ~MustWait(s, mine, theirs)
              /\ SeesGone(s, mine, theirs)
              /\ Return(s, "gone")
           \/ /\ ~MustWait(s, mine, theirs)
              /\ ~SeesGone(s, mine, theirs)
              /\ pc' = [pc EXCEPT ![s] = "copy"]
              /\ end' = [end EXCEPT
                           ![s] = RangeEnd(mine, theirs, remaining[s])]
              /\ UNCHANGED <<seen, result>>
        /\ UNCHANGED <<data, word, arc, mode, remaining, sent, received>>

\* Mutant: go to sleep without comparing the word once more.
WaitBlindly(s) ==
    /\ pc[s] = "wait"
    /\ pc' = [pc EXCEPT ![s] = "sleep"]
    /\ UNCHANGED <<data, word, arc, mode, remaining, end, seen, result,
                   sent, received>>

\* Mutant: a side that was woken waits on the old word again.
WaitAgain(s) ==
    /\ pc[s] = "wait"
    /\ pc' = [pc EXCEPT
                ![s] = IF word[Other(s)] = seen[s] THEN "sleep" ELSE "wait"]
    /\ UNCHANGED <<data, word, arc, mode, remaining, end, seen, result,
                   sent, received>>

\* WaitOnAddress compares and falls asleep in one step.
Wait(s) ==
    /\ pc[s] = "wait"
    /\ pc' = [pc EXCEPT
                ![s] = IF word[Other(s)] = seen[s] THEN "sleep" ELSE "load"]
    /\ UNCHANGED <<data, word, arc, mode, remaining, end, seen, result,
                   sent, received>>

\* WaitOnAddress may return for no reason; acquire() then looks again.
WakeSpuriously(s) ==
    /\ pc[s] = "sleep"
    /\ pc' = [pc EXCEPT ![s] = "load"]
    /\ UNCHANGED <<data, word, arc, mode, remaining, end, seen, result,
                   sent, received>>

\* The slots of the range the side has acquired.
Range(s) == word[s].at .. end[s] - 1

\* Construct the items in the producer's range.
Fill ==
    /\ pc[P] = "copy"
    /\ data' = [i \in Slots |-> IF i \in Range(P)
                                THEN sent + 1 + (i - word[P].at)
                                ELSE data[i]]
    /\ pc' = [pc EXCEPT ![P] = "release"]
    /\ UNCHANGED <<word, arc, mode, remaining, end, seen, result,
                   sent, received>>

\* A constructor throws: what was built of the range is destroyed again,
\* nothing is released and the exception leaves the call.
FillThrows ==
    /\ pc[P] = "copy"
    /\ pc' = [pc EXCEPT ![P] = "idle"]
    /\ UNCHANGED <<data, word, arc, mode, remaining, end, seen, result,
                   sent, received>>

\* Move the items out of the consumer's range and destroy them there.
Drain ==
    /\ pc[C] = "copy"
    /\ data' = [i \in Slots |-> IF i \in Range(C) THEN Raw ELSE data[i]]
    /\ pc' = [pc EXCEPT ![C] = "release"]
    /\ UNCHANGED <<word, arc, mode, remaining, end, seen, result,
                   sent, received>>

\* release(): store the own word.
Release(s) ==
    LET got == end[s] - word[s].at
    IN  /\ pc[s] = "release"
        /\ word' = [word EXCEPT ![s] = NextWord(word[s], end[s])]
        /\ pc' = [pc EXCEPT ![s] = "notify"]
        /\ remaining' = [remaining EXCEPT ![s] = @ - got]
        /\ sent' = IF s = P THEN sent + got ELSE sent
        /\ received' = IF s = C THEN received + got ELSE received
        /\ UNCHANGED <<data, arc, mode, end, seen, result>>

\* pc after the side moved on to l and woke the other one.
WakeOther(s, l) ==
    [pc EXCEPT ![s] = l, ![Other(s)] = IF @ = "sleep" THEN "load" ELSE @]

\* release(): wake the other side; then the next round of the call, which
\* does not block again unless the policy is block_forever.
Notify(s) ==
    /\ pc[s] = "notify"
    /\ IF remaining[s] = 0
       THEN /\ pc' = WakeOther(s, "idle")
            /\ result' = [result EXCEPT ![s] = "ok"]
            /\ UNCHANGED mode
       ELSE /\ pc' = WakeOther(s, "load")
            /\ mode' = [mode EXCEPT ![s] = IF @ = "initially" THEN "no" ELSE @]
            /\ UNCHANGED result
    /\ UNCHANGED <<data, word, arc, remaining, end, seen, sent, received>>

-----------------------------------------------------------------------------
(* The destructors of producer and consumer: drop().                       *)

DropStore(s) ==
    /\ pc[s] = "idle"
    /\ word' = [word EXCEPT ![s].drop = 1]
    /\ pc' = [pc EXCEPT ![s] = "dropNotify"]
    /\ UNCHANGED <<data, arc, mode, remaining, end, seen, result,
                   sent, received>>

DropNotify(s) ==
    /\ pc[s] = "dropNotify"
    /\ pc' = WakeOther(s, "exchange")
    /\ UNCHANGED <<data, word, arc, mode, remaining, end, seen, result,
                   sent, received>>

\* _eitherSideDropped.exchange(true): the second side deletes the arc.
Exchange(s) ==
    /\ pc[s] = "exchange"
    /\ arc' = "half"
    /\ pc' = [pc EXCEPT ![s] = IF arc = "half" THEN "delete" ELSE "gone"]
    /\ UNCHANGED <<data, word, mode, remaining, end, seen, result,
                   sent, received>>

\* Mutant: a full ring is taken for an empty one.
DoomedUnlessFull ==
    LET beg == word[C].at
        fin == word[P].at
    IN  CASE fin > beg -> beg .. fin - 1
          [] fin < beg -> (0 .. fin - 1) \cup (beg .. Capacity - 1)
          [] OTHER -> {}

\* The slots that ~arc() destroys.
Doomed ==
    LET beg == word[C].at
        fin == word[P].at
    IN  CASE fin > beg -> beg .. fin - 1
          [] fin <= beg /\ word[P].rev # word[C].rev ->
                (0 .. fin - 1) \cup (beg .. Capacity - 1)
          [] OTHER -> {}

Delete(s) ==
    /\ pc[s] = "delete"
    /\ arc' = "deleted"
    /\ data' = [i \in Slots |-> IF i \in Doomed THEN Raw ELSE data[i]]
    /\ pc' = [pc EXCEPT ![s] = "gone"]
    /\ UNCHANGED <<word, mode, remaining, end, seen, result, sent, received>>

-----------------------------------------------------------------------------

\* The steps of a call or a destructor that has begun.
Proceed(s) ==
    \/ Load(s) \/ Wait(s) \/ Release(s) \/ Notify(s)
    \/ DropNotify(s) \/ Exchange(s) \/ Delete(s)

Next ==
    \/ \E s \in Side : Proceed(s)
    \/ \E s \in Side, n \in Counts, policy \in {"forever", "initially"} :
          Call(s, n, policy)
    \/ \E s \in Side : WakeSpuriously(s) \/ DropStore(s)
    \/ Fill \/ FillThrows \/ Drain

Spec == Init /\ [][Next]_vars

\* A thread inside the library keeps running.  Nobody has to make a call,
\* to drop a side or to wake without a reason.
Fairness ==
    /\ \A s \in Side : WF_vars(Proceed(s))
    /\ WF_vars(Fill)
    /\ WF_vars(Drain)

FairSpec == Spec /\ Fairness

-----------------------------------------------------------------------------
(* Properties.                                                             *)

\* What the consumer is about to move out of its range is exactly the next
\* items in the order they were sent: none is lost, repeated, overtaken or
\* read before it was built (the split range of acquire(), spsc.h 350-371).
\* And the producer builds items only where no object lives: it never runs
\* over an item that has not been consumed, also when the two positions are
\* equal and only the revolution flags tell full from empty.
SlotsRight ==
    /\ pc[C] = "copy" => \A i \in Range(C) :
          data[i] = received + 1 + (i - word[C].at)
    /\ pc[P] = "copy" => \A i \in Range(P) : data[i] = Raw

\* The arc is deleted by the last side alone, when neither has a step left
\* that touches it, and ~arc() destroys every item left in the ring, and
\* nothing else.
DeletedRight ==
    /\ \A s \in Side : pc[s] = "delete" =>
          /\ pc[Other(s)] = "gone"
          /\ {i \in Slots : data[i] # Raw} = Doomed
    /\ arc = "deleted" => \A s \in Side : pc[s] = "gone"

\* The consumer is told that the channel ended only when the producer is
\* gone and every item was received; the producer only when the consumer is
\* gone (the comment at spsc.h 334-339).
EndsTold ==
    /\ result[C] = "gone" => word[P].drop = 1 /\ received = sent
    /\ result[P] = "gone" => word[C].drop = 1

\* No wake-up is lost: a side that sleeps either still has to wait, or the
\* other side stored its word and is about to wake it.
NoLostWakeup ==
    \A s \in Side : pc[s] = "sleep" =>
        \/ MustWait(s, word[s], word[Other(s)])
        \/ pc[Other(s)] \in {"notify", "dropNotify"}

\* A call in progress returns once the other side has been dropped, even
\* when the caller was asleep on a full or an empty ring.
CallsEndAfterDrop ==
    \A s \in Side :
        (word[Other(s)].drop = 1 /\ pc[s] \in InCall) ~> (pc[s] \notin InCall)

=============================================================================
