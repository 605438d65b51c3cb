---------------------------- MODULE PanelProcess ----------------------------
(***************************************************************************)
(* The process the background jobs live in: the context they were started  *)
(* with, and what reaches them from outside.  Everything that is not a     *)
(* step of the panel (a user changed, a connection opened, a call that     *)
(* fails) is an event; `events' bounds them and serves as the clock, since *)
(* two instants with no event between them cannot be told apart.           *)
(***************************************************************************)
EXTENDS Naturals

CONSTANT MaxEvents   \* bound: events in a behaviour

VARIABLES
  running,   \* the context of the jobs is not cancelled
  events     \* events so far

process == <<running, events>>

Event == events < MaxEvents /\ events' = events + 1

\* A call made by a job under its context returns an error: the context is
\* cancelled, or the call itself goes wrong.
CallFails ==
  /\ UNCHANGED running
  /\ \/ ~running /\ UNCHANGED events
     \/ running /\ Event
=============================================================================
