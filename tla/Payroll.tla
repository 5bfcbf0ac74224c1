------------------------------- MODULE Payroll -------------------------------
(***************************************************************************)
(* The days one member of staff works, the leave and the pay agreed with   *)
(* them, and the payslips made of these: attendance/service.ts,            *)
(* leave/service.ts and salary/service.ts.                                 *)
(*                                                                         *)
(* No handler here locks what it reads: it loads a row through the pool,   *)
(* decides, and writes the row by its id, or inserts one that a unique     *)
(* index admits.  Payslips are money that two such readings apart decide.  *)
(*                                                                         *)
(* Time is counted in ticks, Ticks of them to a day, and money in rates    *)
(* times ticks: proRateMoney's one rounding per figure is left out, like   *)
(* the geofence, the photo and the row a correction adds to its trail.     *)
(***************************************************************************)
EXTENDS Sums, FiniteSets

CONSTANTS
    Requests,     \* requests in flight at once
    Ticks,        \* the length of a day
    LastTick,     \* bound: when the clock stops
    Joined,       \* users.joined_on
    Leaves,       \* staff_leaves rows there may be
    Salaries,     \* salaries rows there may be
    Terms,        \* what a pay configuration may say
    Periods,      \* the ranges of days payslips are asked for
    None,         \* null, or no row
    MaxBegun      \* bound: requests and single statements that are ever begun

Days == 0..(LastTick \div Ticks)

\* `corrected' counts as `present' everywhere and is one with it here.
Row      == [in : 0..LastTick, out : (0..LastTick) \cup {None},
             status : {"present", "absent"}]
LeaveRow == [from : Days, to : Days, status : {"pending", "approved", "rejected"}]

ASSUME PayrollAssumption ==
    /\ Ticks \in Nat \ {0} /\ LastTick \in Nat /\ MaxBegun \in Nat
    /\ Joined \in Days /\ IsFiniteSet(Salaries)
    /\ Terms \subseteq [rate : Nat \ {0}, extra : Nat, off : Days \cup {None},
                        standard : Nat \ {0}, effective : Days]
    /\ Periods \subseteq Days \X Days /\ \A r \in Periods : r[1] <= r[2]
    /\ None \notin Int \cup Requests \cup Row \cup LeaveRow \cup Terms

VARIABLES
    now,         \* the clock
    attendance,  \* attendances: at most one row a day (uq_attendance_staff_date)
    leave,       \* staff_leaves
    salary,      \* salaries, by row
    payslip,     \* salary_payslips: at most one row a period (uq_payslip_staff_period)
    step,        \* how far each request is
    seen,        \* what it loaded and is going to write
    overtaken,   \* history: requests somebody wrote in front of
    begun        \* history: how many requests and statements there have been

records == <<attendance, leave, salary, payslip>>
vars    == <<now, records, step, seen, overtaken, begun>>

Today == now \div Ticks
Least(a, b)    == IF a < b THEN a ELSE b

\* Mutant of Larger: what is short of nothing is taken off.
LargerSigned(a, b) == b
Larger(a, b) == IF a > b THEN a ELSE b

Figures  == {"working", "present", "onLeave", "incomplete", "absent",
             "regular", "extra", "short", "net"}
-----------------------------------------------------------------------------
\* getEffectiveSalary: the latest row at or before the day.  Of several rows
\* with one effective date the database returns any.
InForce(day) ==
    LET known == {s \in Salaries : salary[s] # None /\ salary[s].effective <= day}
    IN  {s \in known : \A t \in known : salary[t].effective <= salary[s].effective}

OnLeave(day) ==
    \E l \in Leaves : /\ leave[l] # None /\ leave[l].status = "approved"
                      /\ leave[l].from <= day /\ day <= leave[l].to

\* Mutant of Walked: the last day of the period is left out.
WalkedShort(c, from, to) ==
    {d \in Days : /\ from <= d /\ c.effective <= d /\ Joined <= d
                  /\ d < to /\ d <= Today
                  /\ c.off # d}

\* The days calculateSalaryForRange walks, which are less than a week: from the
\* start of the period, of the configuration or of the employment, whichever is
\* last, to today at most.
Walked(c, from, to) ==
    {d \in Days : /\ from <= d /\ c.effective <= d /\ Joined <= d
                  /\ d <= to /\ d <= Today
                  /\ c.off # d}

Worked(row) == Larger(0, row.out - row.in)

\* calculateSalaryForRange, under the configuration it found.
Calculated(c, from, to) ==
    LET days       == Walked(c, from, to)
        onLeave    == {d \in days : OnLeave(d)}
        absent     == {d \in days \ onLeave : \/ attendance[d] = None
                                              \/ attendance[d].status = "absent"}
        incomplete == {d \in days \ (onLeave \cup absent) : attendance[d].out = None}
        present    == days \ (onLeave \cup absent \cup incomplete)
        worked     == [d \in present |-> Worked(attendance[d])]
        regular    == c.standard * Cardinality(onLeave)
                      + SumOver([d \in present |-> Least(worked[d], c.standard)], present)
        extra      == SumOver([d \in present |-> Larger(0, worked[d] - c.standard)], present)
    IN  [working |-> Cardinality(days), present |-> Cardinality(present),
         onLeave |-> Cardinality(onLeave), incomplete |-> Cardinality(incomplete),
         absent |-> Cardinality(absent), regular |-> regular, extra |-> extra,
         short |-> SumOver([d \in present |-> Larger(0, c.standard - worked[d])], present),
         net |-> c.rate * regular + c.extra * extra]
-----------------------------------------------------------------------------
Nothing == [op |-> "none", key |-> None, new |-> None]

Init ==
    /\ now = 0
    /\ attendance = [d \in Days |-> None]
    /\ leave = [l \in Leaves |-> None]
    /\ salary = [s \in Salaries |-> None]
    /\ payslip = [r \in Periods |-> None]
    /\ step = [q \in Requests |-> "idle"]
    /\ seen = [q \in Requests |-> Nothing]
    /\ overtaken = {}
    /\ begun = 0

Begin == begun < MaxBegun /\ begun' = begun + 1

Tick ==
    /\ now < LastTick
    /\ now' = now + 1
    /\ UNCHANGED <<records, step, seen, overtaken, begun>>

Load(q, op, key, new) ==
    /\ step[q] = "idle" /\ Begin
    /\ step' = [step EXCEPT ![q] = "loaded"]
    /\ seen' = [seen EXCEPT ![q] = [op |-> op, key |-> key, new |-> new]]
    /\ UNCHANGED <<now, records, overtaken>>

\* checkIn finds no row for today; the photo is uploaded before it inserts one.
LoadCheckIn(q) ==
    /\ attendance[Today] = None
    /\ Load(q, "checkIn", None, None)

\* checkOut finds today's row, still open.
LoadCheckOut(q) ==
    /\ attendance[Today] # None /\ attendance[Today].out = None
    /\ Load(q, "checkOut", Today, None)

\* correctAttendance: the times the owner gives, or those it loaded.
LoadCorrection(q, d, in, out, status) ==
    LET row == attendance[d]
        new == [in |-> IF in = None THEN row.in ELSE in,
                out |-> IF out = None THEN row.out ELSE out, status |-> status]
    IN  /\ row # None
        /\ new.out # None => new.out >= new.in
        /\ Load(q, "correct", d, new)

\* Bound: the times an owner gives are of the day corrected.
TimesOf(d) == {t \in 0..LastTick : t \div Ticks = d}

\* Mutant of LoadDecision: a decided request may be decided again.
LoadDecisionAgain(q, l, verdict) == leave[l] # None /\ Load(q, "decide", l, verdict)

\* decideLeave: a pending request, never the caller's own.
LoadDecision(q, l, verdict) ==
    /\ leave[l] # None /\ leave[l].status = "pending"
    /\ Load(q, "decide", l, verdict)

\* deleteLeave: the requester withdraws what is still pending, a manager any.
LoadWithdrawal(q, l, op) ==
    /\ leave[l] # None
    /\ op = "withdraw" => leave[l].status = "pending"
    /\ Load(q, op, l, None)

\* generatePayslipForRange: the period is over and a configuration prices it.
LoadPayslip(q, r) ==
    /\ r[2] < Today
    /\ \E s \in InForce(r[2]) : Load(q, "payslip", r, salary[s])

\* It reads the attendance and the approved leave, two queries sent at once.
Calculate(q) ==
    /\ step[q] = "loaded" /\ seen[q].op = "payslip"
    /\ step' = [step EXCEPT ![q] = "calculated"]
    /\ seen' = [seen EXCEPT ![q].new = Calculated(@, seen[q].key[1], seen[q].key[2])]
    /\ UNCHANGED <<now, records, overtaken, begun>>

\* Somebody has written (q, or nobody of them): what the others read is old.
Overtake(q) ==
    overtaken' = {p \in Requests \ {q} : step[p] # "idle"}

Finish(q, op) ==
    /\ step[q] = (IF op = "payslip" THEN "calculated" ELSE "loaded")
    /\ seen[q].op = op
    /\ step' = [step EXCEPT ![q] = "idle"]
    /\ seen' = [seen EXCEPT ![q] = Nothing]
    /\ Overtake(q)
    /\ UNCHANGED <<now, begun>>

\* Mutant of CheckIn: a conflict with the index updates the row.
CheckInAgain(q) ==
    /\ Finish(q, "checkIn")
    /\ attendance' = [attendance EXCEPT ![Today] =
                         [in |-> now, out |-> None, status |-> "present"]]
    /\ UNCHANGED <<leave, salary, payslip>>

\* The row is of the day it is inserted on; the index refuses a second.
CheckIn(q) ==
    /\ Finish(q, "checkIn")
    /\ attendance[Today] = None
    /\ attendance' = [attendance EXCEPT ![Today] =
                         [in |-> now, out |-> None, status |-> "present"]]
    /\ UNCHANGED <<leave, salary, payslip>>

CheckOut(q) ==
    /\ Finish(q, "checkOut")
    /\ attendance' = [attendance EXCEPT ![seen[q].key].out = now]
    /\ UNCHANGED <<leave, salary, payslip>>

CorrectAttendance(q) ==
    /\ Finish(q, "correct")
    /\ attendance' = [attendance EXCEPT ![seen[q].key] = seen[q].new]
    /\ UNCHANGED <<leave, salary, payslip>>

\* Of a request that is gone by now there is no row to update.
DecideLeave(q) ==
    /\ Finish(q, "decide")
    /\ leave' = [leave EXCEPT ![seen[q].key] =
                    IF @ = None THEN None ELSE [@ EXCEPT !.status = seen[q].new]]
    /\ UNCHANGED <<attendance, salary, payslip>>

DeleteLeave(q) ==
    /\ \E op \in {"withdraw", "remove"} : Finish(q, op)
    /\ leave' = [leave EXCEPT ![seen[q].key] = None]
    /\ UNCHANGED <<attendance, salary, payslip>>

\* The payslip of the period is inserted or overwritten.
SavePayslip(q) ==
    /\ Finish(q, "payslip")
    /\ payslip' = [payslip EXCEPT ![seen[q].key] = seen[q].new]
    /\ UNCHANGED <<attendance, leave, salary>>

\* A refusal by the index, a client or a server that went away.
GiveUp(q) ==
    /\ step[q] # "idle"
    /\ step' = [step EXCEPT ![q] = "idle"]
    /\ seen' = [seen EXCEPT ![q] = Nothing]
    /\ overtaken' = overtaken \ {q}
    /\ UNCHANGED <<now, records, begun>>

\* createLeave, and createSalary, updateSalary and deleteSalary, which load
\* nothing they decide by.
Statement == Begin /\ Overtake(None) /\ UNCHANGED <<now, step, seen, attendance, payslip>>

CreateLeave(l, from, to) ==
    /\ leave[l] = None /\ from <= to
    /\ leave' = [leave EXCEPT ![l] = [from |-> from, to |-> to, status |-> "pending"]]
    /\ Statement /\ UNCHANGED salary

PutSalary(s, terms) ==
    /\ salary' = [salary EXCEPT ![s] = terms]
    /\ Statement /\ UNCHANGED leave

DeleteSalary(s) ==
    /\ salary[s] # None
    /\ salary' = [salary EXCEPT ![s] = None]
    /\ Statement /\ UNCHANGED leave

Handle(q) ==
    \/ LoadCheckIn(q)
    \/ LoadCheckOut(q)
    \/ \E d \in Days, status \in {"present", "absent"} :
          \E in, out \in TimesOf(d) \cup {None} : LoadCorrection(q, d, in, out, status)
    \/ \E l \in Leaves, verdict \in {"approved", "rejected"} : LoadDecision(q, l, verdict)
    \/ \E l \in Leaves, op \in {"withdraw", "remove"} : LoadWithdrawal(q, l, op)
    \/ \E r \in Periods : LoadPayslip(q, r)
    \/ Calculate(q)
    \/ CheckIn(q)
    \/ CheckOut(q)
    \/ CorrectAttendance(q)
    \/ DecideLeave(q)
    \/ DeleteLeave(q)
    \/ SavePayslip(q)
    \/ GiveUp(q)

Next ==
    \/ Tick
    \/ \E q \in Requests : Handle(q)
    \/ \E l \in Leaves, from, to \in Days : CreateLeave(l, from, to)
    \/ \E s \in Salaries, terms \in Terms : PutSalary(s, terms)
    \/ \E s \in Salaries : DeleteSalary(s)

Spec == Init /\ [][Next]_vars
-----------------------------------------------------------------------------
\* Type correctness of the records and of the requests.
TypeOK ==
    /\ now \in 0..LastTick
    /\ attendance \in [Days -> Row \cup {None}]
    /\ leave \in [Leaves -> LeaveRow \cup {None}]
    /\ salary \in [Salaries -> Terms \cup {None}]
    /\ payslip \in [Periods -> [Figures -> Nat] \cup {None}]
    /\ step \in [Requests -> {"idle", "loaded", "calculated"}]
    /\ overtaken \subseteq {q \in Requests : step[q] # "idle"}
    /\ begun \in 0..MaxBegun

Ends(q, op, key) ==
    step[q] # "idle" /\ step'[q] = "idle" /\ seen[q].op = op /\ seen[q].key = key

\* What a day has recorded stands: its check-in is moved by a correction alone,
\* its check-out too, unless two check-outs were under way, and a correction
\* erases a check-out only if that came after it had loaded the day.
TimesStand ==
    [][\A d \in Days :
          attendance[d] # None /\ attendance'[d] # attendance[d] =>
             /\ attendance'[d] # None
             /\ \E q \in Requests :
                   \/ /\ Ends(q, "correct", d)
                      /\ attendance[d].out # None /\ attendance'[d].out = None
                            => q \in overtaken
                   \/ /\ Ends(q, "checkOut", d)
                      /\ attendance'[d] = [attendance[d] EXCEPT !.out = now]
                      /\ attendance[d].out = None \/ q \in overtaken]_vars

\* A decided request for leave stays decided as it is, until a manager removes
\* it, unless the handler had loaded it before the decision.
DecidedStays ==
    [][\A l \in Leaves :
          leave[l] # None /\ leave[l].status # "pending" /\ leave'[l] # leave[l] =>
             \E q \in Requests : \/ Ends(q, "remove", l)
                                 \/ \E op \in {"decide", "withdraw"} :
                                       Ends(q, op, l) /\ q \in overtaken]_vars

\* What a day comes to by itself, under the configuration in force that day:
\* nothing before there is one, and nothing before the first day of the job.
DayNet(d) ==
    IF InForce(d) = {} \/ d < Joined THEN 0
    ELSE Calculated(salary[CHOOSE s \in InForce(d) : TRUE], d, d).net

TermsOver(r) == {salary[s] : s \in UNION {InForce(d) : d \in r[1]..r[2]}}

PaysByTheDay(r) ==
    \A q \in Requests \ overtaken :
       Ends(q, "payslip", r) /\ payslip' # payslip =>
          payslip'[r].net = SumOver([d \in Days |-> DayNet(d)], r[1]..r[2])

\* A payslip of a period with one configuration throughout pays what its days
\* come to one by one: no day is left out or counted twice at the ends of the
\* period, of the leave, or at the first day of the job or of the pay.
PaidByTheDay ==
    [][\A r \in Periods : Cardinality(TermsOver(r)) <= 1 => PaysByTheDay(r)]_vars

\* The same with a raise in the middle of the period, as schema/salary.ts has
\* it: calculateSalary prices the past against whatever was in force then.
PaidThroughRaise ==
    [][\A r \in Periods :
          (\A d \in r[1]..r[2] : Cardinality(InForce(d)) <= 1) => PaysByTheDay(r)]_vars
=============================================================================
