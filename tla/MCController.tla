---------------------------- MODULE MCController ----------------------------
(* Job files of up to two entries that may have one wrong part each, and   *)
(* of three good ones, under four kinds of defaults.  The one that is run  *)
(* has two tasks, one with a retry and one that needs a label only the     *)
(* second of the two agents has.                                           *)
EXTENDS Controller

A    == <<"a">>
Item == [shape |-> "ok", name |-> A, argv |-> "ok", timeout_s |-> <<>>, retries |-> <<>>,
         env |-> <<>>, requires |-> <<>>, repeat |-> <<>>]

Kvm == Label("kvm", NoValue)

Good ==
  {Item,
   [Item EXCEPT !.name = <<"b">>, !.repeat = <<2>>, !.timeout_s = <<86400>>],
   [Item EXCEPT !.name = <<"b", 1>>, !.env = <<{<<"PATH", "own">>}>>, !.retries = <<2>>],
   [Item EXCEPT !.name = <<"c">>, !.repeat = <<3>>, !.requires = <<{Kvm}>>]}

Bad ==
  {[Item EXCEPT !.repeat = <<0>>],
   [Item EXCEPT !.timeout_s = <<86401>>],
   [Item EXCEPT !.timeout_s = <<0>>],
   [Item EXCEPT !.argv = "empty"],
   [Item EXCEPT !.name = <<>>],
   [Item EXCEPT !.env = Malformed],
   [Item EXCEPT !.shape = "unknown key"]}

NoDefaultsGiven == [shape |-> "ok", timeout_s |-> <<>>, retries |-> <<>>, env |-> <<>>, requires |-> <<>>]

Defaults ==
  {NoDefaultsGiven,
   [NoDefaultsGiven EXCEPT !.timeout_s = <<1>>, !.retries = <<1>>,
      !.env = <<{<<"PATH", "d">>, <<"LANG", "d">>}>>, !.requires = <<{Label("os", "linux")}>>],
   [NoDefaultsGiven EXCEPT !.retries = <<-1>>],
   [NoDefaultsGiven EXCEPT !.shape = "unknown key"]}

Lists == UNION ({[1..n -> Good \cup Bad] : n \in 0..2} \cup {[1..3 -> Good]})

TheJob ==
  [shape |-> "ok", defaults |-> NoDefaultsGiven,
   tasks |-> <<[Item EXCEPT !.retries = <<1>>], [Item EXCEPT !.name = <<"k">>, !.requires = <<{Kvm}>>]>>]

SomeRoots ==
  {[shape |-> "ok", defaults |-> d, tasks |-> ts] : d \in Defaults, ts \in Lists} \cup
  {[shape |-> s, defaults |-> NoDefaultsGiven, tasks |-> <<Item>>] : s \in {"not JSON", "unknown key"}} \cup
  {TheJob}

SomeAgents == 1..2
Addresses == <<"x", "y">>
SomeLabels == <<{}, {Label("kvm", "true")}>>
=============================================================================
