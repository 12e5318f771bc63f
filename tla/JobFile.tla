------------------------------- MODULE JobFile -------------------------------
(***************************************************************************)
(* parse_jobs (dtest/src/jobs.cpp): validation of a job file, defaults,    *)
(* and the expansion of "repeat" into the list of tasks that the scheduler *)
(* gets.  A JSON value is abstracted to what the parser can tell apart: a  *)
(* number that is not an integer is one out of range, and a name is a      *)
(* sequence so that appending "[2]" to it is appending 2.                  *)
(***************************************************************************)
EXTENDS Integers, Sequences, SequencesExt

CONSTANTS
  kMaxTasks,
  MaxTimeout, \* 86400
  MaxRetries, \* 10
  MaxRepeat   \* 1000

ASSUME JobFileAssumption ==
  /\ kMaxTasks \in Nat /\ MaxRetries \in Nat /\ MaxRepeat \in Nat
  /\ MaxTimeout \in Nat /\ 60 <= MaxTimeout /\ MaxTimeout <= 24 * 3600

(* An optional key is absent (<<>>), has a value (<<v>>) or, if it should  *)
(* be an object or an array of strings and is not, is Malformed.           *)
Malformed == <<"not", "well-formed">>
WellFormed(key) == key # Malformed
Given(key) == key # <<>>
ValueOr(key, d) == IF Given(key) THEN key[1] ELSE d

(* What can be in a file: lists, names, numbers, objects whose keys are    *)
(* distinct.                                                               *)
IsList(s) == Len(s) \in Nat /\ s = [i \in 1..Len(s) |-> s[i]]
IsNumber(key) == Given(key) => key = <<key[1]>> /\ key[1] \in Int
KeysDistinct(obj) == \A p, q \in obj : p[1] = q[1] => p = q
IsObject(key) == Given(key) /\ WellFormed(key) => KeysDistinct(key[1])

IsDocument(root) ==
  LET d == root.defaults IN
  /\ IsNumber(d.timeout_s) /\ IsNumber(d.retries) /\ IsObject(d.env) /\ IsList(root.tasks)
  /\ \A k \in DOMAIN root.tasks :
       LET e == root.tasks[k] IN
       /\ IsList(e.name) /\ IsNumber(e.timeout_s) /\ IsNumber(e.retries)
       /\ IsNumber(e.repeat) /\ IsObject(e.env)

(* An object, with no key the parser does not know. *)
check_keys(obj) == obj.shape = "ok"

(* Mutant: no lower bound. *)
is_int_in_below(key, lo, hi) == Given(key) => key[1] <= hi

is_int_in(key, lo, hi) == Given(key) => key[1] \in lo..hi

ValidNumbers(e) ==
  is_int_in(e.timeout_s, 1, MaxTimeout) /\ is_int_in(e.retries, 0, MaxRetries)

ValidHeader(root) ==
  LET d == root.defaults IN
  /\ check_keys(root) /\ check_keys(d)
  /\ ValidNumbers(d) /\ WellFormed(d.env) /\ WellFormed(d.requires)
  /\ root.tasks # <<>>

ValidEntry(e) ==
  /\ check_keys(e) /\ e.name # <<>> /\ e.argv # "empty"
  /\ ValidNumbers(e) /\ is_int_in(e.repeat, 1, MaxRepeat)
  /\ WellFormed(e.env) /\ WellFormed(e.requires)

(* The Task that every task starts from. *)
defaults(d) ==
  [timeout_s |-> ValueOr(d.timeout_s, 60), retries |-> ValueOr(d.retries, 0),
   env |-> ValueOr(d.env, {}), needs |-> ValueOr(d.requires, {})]

(* A set of <<key, value>> pairs over another. *)
Over(own, base) == own \cup {p \in base : \A q \in own : q[1] # p[1]}

(* Mutant: a task's environment replaces the default one. *)
Merged_replacing(e, base) ==
  [name |-> e.name, argv |-> e.argv, timeout_s |-> ValueOr(e.timeout_s, base.timeout_s),
   retries |-> ValueOr(e.retries, base.retries),
   env |-> ValueOr(e.env, base.env), needs |-> ValueOr(e.requires, base.needs)]

(* The entry over the defaults: env is merged, everything else replaced. *)
Merged(e, base) ==
  [name |-> e.name, argv |-> e.argv,
   timeout_s |-> ValueOr(e.timeout_s, base.timeout_s),
   retries   |-> ValueOr(e.retries, base.retries),
   env       |-> Over(ValueOr(e.env, {}), base.env),
   needs     |-> ValueOr(e.requires, base.needs)]

copies(e) == ValueOr(e.repeat, 1)

CopyName(e, i) == IF copies(e) > 1 THEN Append(e.name, i) ELSE e.name

fail(m) == [tasks |-> <<>>, error |-> m]

(* One copy is added to what has been read so far. *)
add_copy(res, task) ==
  IF res.error # "" THEN res
  ELSE IF \E i \in DOMAIN res.tasks : res.tasks[i].name = task.name THEN fail("duplicate")
  ELSE IF Len(res.tasks) + 1 > kMaxTasks THEN fail("too many")
  ELSE [res EXCEPT !.tasks = Append(@, task)]

parse_task(res, e, base) ==
  IF res.error # "" THEN res
  ELSE IF ~ValidEntry(e) THEN fail("entry")
  ELSE FoldLeft(add_copy, res,
         [i \in 1..copies(e) |-> [Merged(e, base) EXCEPT !.name = CopyName(e, i)]])

parse_jobs(root) ==
  IF ~ValidHeader(root) THEN fail("header")
  ELSE FoldLeft(LAMBDA res, e : parse_task(res, e, defaults(root.defaults)),
                [tasks |-> <<>>, error |-> ""], root.tasks)

(* What the agent demands of a call (RunTask) and what the executor makes  *)
(* of a task for it.                                                       *)
timeout_ms(task) == task.timeout_s * 1000
ArgumentsValid(task) ==
  task.argv # "empty" /\ timeout_ms(task) > 0 /\ timeout_ms(task) <= 24 * 3600 * 1000
=============================================================================
