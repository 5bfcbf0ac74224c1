------------------------------ MODULE MCPayroll ------------------------------
(* The member of staff and the owner.  In `payroll' the period is three days,
   and the job begins on the second, the later pay on the third; in
   `payroll_PaidThroughRaise' it is two days, with the raise on the second.  *)
EXTENDS Payroll, TLC

CONSTANTS q1, q2, l1, s1, s2

MCRequests == {q1, q2}
MCLeaves   == {l1}
MCSalaries == {s1, s2}
MCFirstPay == [rate |-> 2, extra |-> 3, off |-> None, standard |-> 1, effective |-> 0]
MCTerms    == {MCFirstPay,
               [rate |-> 5, extra |-> 0, off |-> 1, standard |-> 2, effective |-> 2]}
MCPeriods  == {<<0, 2>>}
MCRaise    == {MCFirstPay,
               [rate |-> 5, extra |-> 0, off |-> 0, standard |-> 2, effective |-> 1]}
MCTwoDays  == {<<0, 1>>}

Symmetry == Permutations(MCRequests) \cup Permutations(MCSalaries)
=============================================================================
