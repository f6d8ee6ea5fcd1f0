------------------------------ MODULE AppEvents ------------------------------
(***************************************************************************)
(* The event plumbing that every application task of the firmware shares   *)
(* (components/utils/app_events.c and the _task/PostMsg pair each module   *)
(* repeats around it).                                                     *)
(*                                                                         *)
(* A task owns one FreeRTOS queue of fixed length.  X_PostMsg sends with a *)
(* timeout of 0, so a full queue is never waited for: the send fails and   *)
(* the module asserts, which aborts and reboots the device.  The task      *)
(* receives one event at a time and looks it up in the handler table of    *)
(* its current state; an event the table does not list is deleted without  *)
(* any effect.                                                             *)
(*                                                                         *)
(* The operators are parameterised by the queue, so that a module can have *)
(* several.                                                                *)
(***************************************************************************)
EXTENDS Naturals, Sequences, SequencesExt

\* xQueueSend(queue, event, 0) would return errQUEUE_FULL.
Full(q, capacity) == Len(q) >= capacity

\* The queue after xQueueSend(queue, event, 0): unchanged when it is full.
Send(q, capacity, e) == IF Full(q, capacity) THEN q ELSE Append(q, e)

\* AppEventSearchAndExecute finds a callback for event e: handlers maps each
\* state of the module to the set of events its handler table lists.
HasHandler(handlers, st, e) == e \in handlers[st]
=============================================================================
