------------------------------ MODULE EventRing ------------------------------
(***************************************************************************)
(* The ring buffer in which libaerend keeps the events that arrive while   *)
(* it waits for the answer to a request (AeCtx.evbuf and process_event(),  *)
(* ae_peek_event(), ae_pop_event() of client/libaerend.c).                 *)
(***************************************************************************)
EXTENDS Integers, Sequences

CONSTANTS
    Event,      \* the events that can arrive
    EvbufLen    \* AeCtx.evbuf_len

\* ae_init() does not check the length it is given; with 0 it divides by 0.
ASSUME EvbufAssumption == EvbufLen \in Nat \ {0}

Slot == 0..(EvbufLen - 1)
NoSlot == -1

VARIABLES
    first_ev,   \* AeCtx.first_ev
    last_ev,    \* AeCtx.last_ev
    evbuf,      \* AeCtx.evbuf
    evbuf_full  \* whether AeCtx.err has the bit AE_EVBUF_FULL
ringVars == <<first_ev, last_ev, evbuf, evbuf_full>>

RingInit ==
    /\ first_ev = NoSlot /\ last_ev = NoSlot
    /\ evbuf \in [Slot -> Event]      \* the caller's array, never initialized
    /\ evbuf_full = FALSE

IsFull == (last_ev + 1) % EvbufLen = first_ev

\* Where process_event() puts the event.
NextSlot ==
    IF first_ev = NoSlot /\ last_ev = NoSlot THEN 0
    ELSE IF last_ev = EvbufLen - 1 /\ first_ev # 0 THEN 0
    ELSE (last_ev + 1) % EvbufLen

\* Mutant of ProcessEvent: the oldest event is overwritten.
ProcessEventOver(e) ==
    /\ ~evbuf_full
    /\ first_ev' = IF first_ev = NoSlot THEN 0 ELSE first_ev
    /\ last_ev' = NextSlot
    /\ evbuf' = [evbuf EXCEPT ![NextSlot] = e]
    /\ UNCHANGED evbuf_full

\* Every caller has returned already if an error is recorded.
ProcessEvent(e) ==
    /\ ~evbuf_full
    /\ IF IsFull
       THEN evbuf_full' = TRUE /\ UNCHANGED <<first_ev, last_ev, evbuf>>
       ELSE /\ first_ev' = IF first_ev = NoSlot /\ last_ev = NoSlot THEN 0 ELSE first_ev
            /\ last_ev' = NextSlot
            /\ evbuf' = [evbuf EXCEPT ![NextSlot] = e]
            /\ UNCHANGED evbuf_full

\* ae_pop_event()
Pop ==
    /\ first_ev > NoSlot
    /\ IF first_ev = last_ev
       THEN first_ev' = NoSlot /\ last_ev' = NoSlot
       ELSE /\ first_ev' = IF first_ev = EvbufLen - 1 THEN 0 ELSE first_ev + 1
            /\ UNCHANGED last_ev
    /\ UNCHANGED <<evbuf, evbuf_full>>

\* ae_peek_event(): the slot it points to.
PeekEvent == first_ev

\* AeCtx is a plain structure: a program that goes on after an error clears it.
ClearFull == evbuf_full /\ evbuf_full' = FALSE /\ UNCHANGED <<first_ev, last_ev, evbuf>>

RingNext == (\E e \in Event : ProcessEvent(e)) \/ Pop \/ ClearFull

RingSpec == RingInit /\ [][RingNext]_ringVars

-----------------------------------------------------------------------------
(* Properties *)

\* The indices are both in the array or both -1.
RingTypeOK ==
    /\ first_ev = NoSlot <=> last_ev = NoSlot
    /\ first_ev \in Slot \cup {NoSlot} /\ last_ev \in Slot \cup {NoSlot}
    /\ evbuf \in [Slot -> Event]
    /\ evbuf_full \in BOOLEAN

\* What the ring holds, oldest first.
Count == IF first_ev = NoSlot THEN 0
         ELSE IF first_ev <= last_ev THEN last_ev - first_ev + 1
         ELSE last_ev - first_ev + 1 + EvbufLen
SlotAt(i) == IF first_ev + i - 1 < EvbufLen THEN first_ev + i - 1
             ELSE first_ev + i - 1 - EvbufLen
Contents == [i \in 1..Count |-> evbuf[SlotAt(i)]]

\* The ring is a queue of bounded length: no event that was accepted is lost,
\* repeated or overtaken, wherever in the array the indices have got to.
Fifo == INSTANCE EventFifo WITH Capacity <- EvbufLen, events <- Contents, full <- evbuf_full
ImplementsFifo == Fifo!Spec

\* The pointer ae_peek_event() returns stays good: until the event is popped,
\* arriving events leave the slot alone.
PeekedStays ==
    [][PeekEvent # NoSlot /\ PeekEvent' = PeekEvent => evbuf'[PeekEvent] = evbuf[PeekEvent]]_ringVars

=============================================================================
