---------------------------- MODULE ListenerProofs ----------------------------
(***************************************************************************)
(* What the specification of the listener implies.                         *)
(***************************************************************************)
EXTENDS Listener, TLAPS

\* At every moment a client is served only next to an open listener and is
\* known to the network manager, and a server that is shut down has nothing open.
THEOREM Disciplined == Spec => []Discipline
<1>1. Init => TypeOK /\ Discipline
  BY DEF Init, TypeOK, Discipline, Services
<1>2. TypeOK /\ Discipline /\ [Next]_vars => TypeOK' /\ Discipline'
  <2> SUFFICES ASSUME TypeOK, Discipline, [Next]_vars
               PROVE  TypeOK' /\ Discipline'
    OBVIOUS
  <2> USE DEF TypeOK, Discipline, Services
  <2>1. CASE Start
    BY <2>1 DEF Start
  <2>2. CASE LinkUp
    BY <2>2 DEF LinkUp
  <2>9. CASE LinkDown
    BY <2>9 DEF LinkDown
  <2>3. CASE Listen
    BY <2>3 DEF Listen
  <2>4. CASE Accept
    BY <2>4 DEF Accept
  <2>5. CASE CloseClient
    BY <2>5 DEF CloseClient
  <2>6. CASE CloseListener
    BY <2>6 DEF CloseListener
  <2>7. CASE Reset
    BY <2>7 DEF Reset
  <2>8. CASE UNCHANGED vars
    BY <2>8 DEF vars
  <2> QED
    BY <2>1, <2>2, <2>3, <2>4, <2>5, <2>6, <2>7, <2>8, <2>9 DEF Next
<1> QED
  BY <1>1, <1>2, PTL DEF Spec
=============================================================================
