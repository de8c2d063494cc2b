----------------------------- MODULE ArrivalMap -----------------------------
(***************************************************************************)
(* What the arrival ring of the gstreamer receiver promises: a table of     *)
(* per-frame summaries (how many packets, first and last arrival) in which  *)
(* a packet is counted at once, and a question about a frame is answered    *)
(* with the summary the table held at one moment while it was asked, or not *)
(* at all.                                                                  *)
(***************************************************************************)
EXTENDS Integers

CONSTANTS Frames,  \* RTP timestamps, in units of one slot of the table
          Ring     \* number of slots

NoFrame == -1      \* ~0ull: no timestamp has this value
NoEntry == [key |-> NoFrame, first |-> 0, last |-> 0, n |-> 0]
Slots == 0 .. (Ring - 1)
Slot(f) == f % Ring

VARIABLES entry,   \* entry[s]: the summary in a slot
          clock,   \* packets counted; the arrival time of the last one
          asked,   \* the frame a question is open for, or NoFrame
          answer   \* the last answer; NoEntry is "unknown"

mapVars == <<entry, clock, asked, answer>>

\* The summary after one more packet of frame f at time t.
Counted(e, f, t) ==
  IF e.key = f
    THEN [e EXCEPT !.n = @ + 1, !.last = t, !.first = IF t < @ THEN t ELSE @]
    ELSE [key |-> f, first |-> t, last |-> t, n |-> 1]

Init ==
  /\ entry = [s \in Slots |-> NoEntry]
  /\ clock = 0 /\ asked = NoFrame /\ answer = NoEntry

Count(f) ==
  /\ clock' = clock + 1
  /\ entry' = [entry EXCEPT ![Slot(f)] = Counted(@, f, clock + 1)]
  /\ UNCHANGED <<asked, answer>>

Ask(f) ==
  /\ asked = NoFrame
  /\ asked' = f /\ answer' = NoEntry
  /\ UNCHANGED <<entry, clock>>

Tell ==
  /\ asked # NoFrame /\ asked' = NoFrame
  /\ \/ entry[Slot(asked)].key = asked /\ answer' = entry[Slot(asked)]
     \/ answer' = NoEntry
  /\ UNCHANGED <<entry, clock>>

Next == Tell \/ \E f \in Frames : Count(f) \/ Ask(f)

Spec == Init /\ [][Next]_mapVars
=============================================================================
