------------------------------ MODULE LogStore ------------------------------
(***************************************************************************)
(* The remote log store (internal/client/log_store.go): entries are        *)
(* buffered under s.mu and posted to vire-server by a goroutine per flush; *)
(* a flush is due when the buffer is full and whenever the timer fires.    *)
(* Close posts what is left, and the process exits after it.               *)
(*                                                                         *)
(* A call that holds s.mu is one action.  The timer's function may already *)
(* wait for s.mu when Close stops the timer ("fired").                     *)
(***************************************************************************)
EXTENDS Naturals, Sequences, Functions

CONSTANTS Entry,        \* log entries, each stored at most once
          Sender,       \* goroutines that run send
          Main,         \* the goroutine that calls Close
          FlushSize,    \* logFlushSize
          MaxBatch      \* logMaxBatch

ASSUME LogStoreAssumption ==
  /\ Main \notin Sender
  /\ FlushSize \in Nat \ {0}
  /\ MaxBatch \in Nat \ {0}

Goroutine == Sender \cup {Main}

VARIABLES buf, closed,   \* s.buf and s.closed
          timer,         \* "armed", "fired" (its function is about to run), "off"
          sending,       \* what each goroutine has still to post
          stage,         \* "open", "closing", "closed" (Close returned), "exited"
          accepted,      \* history: the entries Store took
          refused,       \* history: the entries Store refused
          posted         \* history: how many requests an entry was in

vars == <<buf, closed, timer, sending, stage, accepted, refused, posted>>

TypeOK ==
  /\ buf \in Seq(Entry)
  /\ closed \in BOOLEAN
  /\ stage # "exited" => closed = (stage # "open")
  /\ timer \in {"armed", "fired", "off"}
  /\ sending \in [Goroutine -> Seq(Entry)]
  /\ stage \in {"open", "closing", "closed", "exited"}
  /\ accepted \subseteq Entry
  /\ refused \subseteq Entry
  /\ posted \in [Entry -> Nat]

Init ==
  /\ buf = <<>>
  /\ closed = FALSE
  /\ timer = "armed"
  /\ sending = [s \in Goroutine |-> <<>>]
  /\ stage = "open"
  /\ accepted = {}
  /\ refused = {}
  /\ posted = [e \in Entry |-> 0]
-----------------------------------------------------------------------------
\* flushLocked: the entries go to a new goroutine and the buffer is emptied.
Flush(entries) ==
  IF entries = <<>>
    THEN UNCHANGED <<buf, sending>>
    ELSE /\ buf' = <<>>
         /\ \E s \in Sender : sending[s] = <<>> /\ sending' = [sending EXCEPT ![s] = entries]

\* Store: refused when closed, else buffered, and flushed when the buffer is full.
Store(e) ==
  /\ stage # "exited"
  /\ e \notin accepted \cup refused
  /\ \/ /\ closed
        /\ refused' = refused \cup {e}
        /\ UNCHANGED <<buf, sending, accepted>>
     \/ /\ ~closed
        /\ accepted' = accepted \cup {e}
        /\ IF Len(buf) + 1 >= FlushSize
             THEN Flush(Append(buf, e))
             ELSE buf' = Append(buf, e) /\ UNCHANGED sending
        /\ UNCHANGED refused
  /\ UNCHANGED <<closed, timer, stage, posted>>

\* The flush interval ends.
TimerFires ==
  /\ timer = "armed"
  /\ stage # "exited"
  /\ timer' = "fired"
  /\ UNCHANGED <<buf, closed, sending, stage, accepted, refused, posted>>

\* timerFlush as it would be without the Reset.
TimerFlushOnce ==
  /\ timer = "fired"
  /\ stage # "exited"
  /\ IF closed THEN UNCHANGED <<buf, sending>> ELSE Flush(buf)
  /\ timer' = "off"
  /\ UNCHANGED <<closed, stage, accepted, refused, posted>>

\* timerFlush: flush and re-arm, unless closed.
TimerFlush ==
  /\ timer = "fired"
  /\ stage # "exited"
  /\ IF closed THEN UNCHANGED <<buf, sending>> ELSE Flush(buf)
  /\ timer' = IF closed THEN "off" ELSE "armed"
  /\ UNCHANGED <<closed, stage, accepted, refused, posted>>

\* send as it would be if it advanced by one entry less than it posted.
SendOverlapping(s) ==
  LET n == IF Len(sending[s]) < MaxBatch THEN Len(sending[s]) ELSE MaxBatch
      batch == {sending[s][i] : i \in 1..n}
  IN  /\ sending[s] # <<>>
      /\ posted' = [e \in Entry |-> IF e \in batch THEN posted[e] + 1 ELSE posted[e]]
      /\ sending' = [sending EXCEPT ![s] = IF n = Len(@) THEN <<>> ELSE SubSeq(@, n, Len(@))]
      /\ UNCHANGED <<buf, closed, timer, stage, accepted, refused>>

\* One round of send: a batch is posted, once, whether or not it arrives.
Send(s) ==
  LET n == IF Len(sending[s]) < MaxBatch THEN Len(sending[s]) ELSE MaxBatch
      batch == {sending[s][i] : i \in 1..n}
  IN  /\ sending[s] # <<>>
      /\ posted' = [e \in Entry |-> IF e \in batch THEN posted[e] + 1 ELSE posted[e]]
      /\ sending' = [sending EXCEPT ![s] = SubSeq(@, n + 1, Len(@))]
      /\ UNCHANGED <<buf, closed, timer, stage, accepted, refused>>

\* Close, under s.mu: the rest of the buffer is Main's to send.
Close ==
  /\ stage = "open"
  /\ closed' = TRUE
  /\ timer' = IF timer = "armed" THEN "off" ELSE timer
  /\ sending' = [sending EXCEPT ![Main] = buf]
  /\ buf' = <<>>
  /\ stage' = "closing"
  /\ UNCHANGED <<accepted, refused, posted>>

CloseReturns ==
  /\ stage = "closing"
  /\ sending[Main] = <<>>
  /\ stage' = "closed"
  /\ UNCHANGED <<buf, closed, timer, sending, accepted, refused, posted>>

\* main returns, or os.Exit is called, maybe before Close; goroutines that are still
\* sending end with the process.
Exit ==
  /\ stage # "exited"
  /\ stage' = "exited"
  /\ sending' = [s \in Goroutine |-> <<>>]
  /\ UNCHANGED <<buf, closed, timer, accepted, refused, posted>>

Next ==
  \/ \E e \in Entry : Store(e)
  \/ TimerFires \/ TimerFlush
  \/ \E s \in Goroutine : Send(s)
  \/ Close \/ CloseReturns \/ Exit

Spec == Init /\ [][Next]_vars
-----------------------------------------------------------------------------
\* Until the process exits, an accepted entry is in exactly one place: once in
\* the buffer, once with one goroutine, or in one request.  Flushes by size, by
\* timer and by Close never duplicate it and never drop it.
InOnePlace ==
  stage # "exited" =>
    /\ IsInjective(buf)
    /\ \A s \in Goroutine :
         IsInjective(sending[s]) /\ Range(sending[s]) \cap Range(buf) = {}
    /\ \A s, t \in Goroutine : s # t => Range(sending[s]) \cap Range(sending[t]) = {}
    /\ \A e \in Entry :
         /\ posted[e] <= 1
         /\ posted[e] = 1 => e \notin Range(buf) /\ \A s \in Goroutine : e \notin Range(sending[s])
         /\ e \in accepted <=> \/ posted[e] = 1
                               \/ e \in Range(buf)
                               \/ \E s \in Goroutine : e \in Range(sending[s])

\* Between calls the buffer holds fewer than logFlushSize entries.
BufferBounded == Len(buf) < FlushSize

\* An accepted entry is posted in the end, unless the process exits first.
EventuallyPosted ==
  \A e \in Entry : e \in accepted ~> (posted[e] = 1 \/ stage = "exited")
=============================================================================
