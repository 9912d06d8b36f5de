----------------------------- MODULE MCServices -----------------------------
(***************************************************************************)
(* The services that have no task of their own, for TLC: the byte FIFO,    *)
(* the heap, the message queues, the callback timers, the calendar and the *)
(* conversions of numbers.  None of them calls another in what is modelled *)
(* here, so one of them moves in a behaviour and the others stand still:   *)
(* every behaviour of each part is checked, and no product of them.        *)
(***************************************************************************)
EXTENDS Calendar

CONSTANTS NULL,
          PageBlocks, Byte, PageSize,
          Clients, NumBlocks, BlockSize, BodySize, Sizes,
          Tasks, Msgs, max,
          NumCbTimers, NoCallback, Callbacks, Timeouts,
          Bits, Group, UintLen, Alphabet, MaxText

VARIABLES part,
          handle, page, used, result,
          heap, ptr, asked, denied,
          queue, next, dest_id, announced,
          cb, since,
          num, text

Fifo == INSTANCE OsalFifo WITH Blocks <- PageBlocks
Umm == INSTANCE Heap
Queue == INSTANCE OsalQueue
CbTimer == INSTANCE CbTimerTask
Stringx == INSTANCE Numbers

ASSUME ServicesAssumption ==
    /\ Fifo!FifoAssumption /\ Umm!HeapAssumption /\ Queue!OsalQueueAssumption
    /\ CbTimer!CbTimerAssumption /\ Stringx!NumbersAssumption

fifoVars == <<handle, page, used, result>>
heapVars == <<heap, ptr, asked, denied>>
queueVars == <<queue, next, dest_id, announced>>
cbVars == <<cb, since>>
clockVars == vars
stringxVars == <<num, text>>
servicesVars == <<part, fifoVars, heapVars, queueVars, cbVars, clockVars, stringxVars>>

ServicesInit ==
    /\ part \in {"fifo", "heap", "queue", "cbtimer", "clock", "stringx"}
    /\ Fifo!Init /\ Umm!Init /\ Queue!Init /\ CbTimer!Init /\ Init /\ Stringx!Init

ServicesNext ==
    \/ /\ part = "fifo" /\ Fifo!Next
       /\ UNCHANGED <<part, heapVars, queueVars, cbVars, clockVars, stringxVars>>
    \/ /\ part = "heap" /\ Umm!Next
       /\ UNCHANGED <<part, fifoVars, queueVars, cbVars, clockVars, stringxVars>>
    \/ /\ part = "queue" /\ Queue!Next
       /\ UNCHANGED <<part, fifoVars, heapVars, cbVars, clockVars, stringxVars>>
    \/ /\ part = "cbtimer" /\ CbTimer!Next
       /\ UNCHANGED <<part, fifoVars, heapVars, queueVars, clockVars, stringxVars>>
    \/ /\ part = "clock" /\ ClockUpdate
       /\ UNCHANGED <<part, fifoVars, heapVars, queueVars, cbVars, stringxVars>>
    \/ /\ part = "stringx" /\ Stringx!Next
       /\ UNCHANGED <<part, fifoVars, heapVars, queueVars, cbVars, clockVars>>

ServicesSpec == ServicesInit /\ [][ServicesNext]_servicesVars

-----------------------------------------------------------------------------
\* The pages of the FIFO are its own and its length is what can be got; the heap passes
\* its integrity check, has nothing left to merge and keeps its clients' data; messages
\* are in one queue at most and announced; no slot of the callback timers is lost.
ServicesSound ==
    /\ part = "fifo" => Fifo!TypeOK /\ Fifo!PagesAccounted /\ Fifo!LengthIsBytes
    /\ part = "heap" => /\ Umm!TypeOK /\ Umm!IntegrityCheck /\ Umm!Coalesced
                       /\ Umm!DataKept /\ Umm!RoomAsAsked
    /\ part = "queue" => Queue!TypeOK /\ Queue!ListsAreSound /\ Queue!MailIsAnnounced
    /\ part = "cbtimer" => CbTimer!TypeOK /\ CbTimer!SlotsAreDriven /\ CbTimer!ExpiredIsPending

\* osal_fifo.c: pages that come and go are one queue of bytes (OsalFifo!FifoIsQueue).
FifoIsQueue ==
    /\ Fifo!AsQueue!Init
    /\ [][part = "fifo" => [Fifo!AsQueue!Next]_Fifo!AsQueue!vars]_servicesVars

\* umm_malloc.c: chunks never overlap, nothing leaks, memory is refused only for want of
\* it (Heap!HeapAllocates).
HeapAllocates ==
    /\ Umm!Abstract!Init
    /\ [][part = "heap" => [Umm!Abstract!Next]_Umm!Abstract!vars]_servicesVars

\* osal.c: the linked lists of messages are the queues their functions promise
\* (OsalQueue!IsQueues).
IsQueues ==
    /\ Queue!Abstract!Init
    /\ [][part = "queue" => [Queue!Abstract!Next]_Queue!Abstract!vars]_servicesVars

\* osal_cbtimer.c: a callback is called when its timer has expired, or its slot was
\* freed with its event still set.
CalledInTime == CbTimer!CalledInTime

\* osal_clock.c and stringx.c: dates and numbers come back as they were converted, and
\* mean what a calendar and the notation of numbers mean.
ConversionsHold ==
    /\ [](/\ part = "clock" => TypeOK /\ RoundTrip
          /\ part = "stringx" => Stringx!ReadBack /\ Stringx!GroupsJoin /\ Stringx!ReadsWhatIsMeant)
    /\ DayAfterDay
-----------------------------------------------------------------------------
(* Three pages of two bytes: pages are filled, freed with room in them and *)
(* used again with their former contents.  Seven blocks of the heap, five  *)
(* of them to give, and sizes on both sides of a block's end.              *)
CONSTANTS c1, c2
MCCallbacks == {c1, c2}
MCTimeouts == {1, 3}

(* Texts with signs, prefixes and what is neither. *)
SomeChars == {"0", "1", "9", "a", "F", "x", "-", "z"}
=============================================================================
