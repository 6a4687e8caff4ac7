------------------------------ MODULE OptionList ------------------------------
(***************************************************************************)
(* What a CoAP message is to those who build one: a token, options in the  *)
(* order of their numbers, those of one number in the order in which they  *)
(* were added, and a payload.  Each step is the outcome of one call, whose *)
(* name and arguments are in the variable call, and a call may also be     *)
(* refused, when there is no room or no memory for it.                     *)
(*                                                                         *)
(* This is an abstract specification: nothing here is translated from the  *)
(* source.  CoapPdu is shown to implement it.                              *)
(***************************************************************************)
EXTENDS Integers, Sequences, SequencesExt

CONSTANTS Numbers,        \* option numbers
          Values,         \* option values
          Tokens,         \* tokens
          Payloads,       \* payloads, none of them empty
          Lists,          \* lists of options that are added at once
          Filters,        \* sets of numbers that a copy leaves out
          NonRepeatable   \* options that should not come twice

VARIABLES
    token,    \* the token in a set, which is empty while nothing is promised
    options,
    payload,
    call      \* the last call

messageVars == <<token, options, payload, call>>

HopLimit == [number |-> 16, value |-> <<16>>]
Proxies == {35, 39}

Option(n, v) == [number |-> n, value |-> v]

Has(list, n) == \E i \in DOMAIN list : list[i].number = n

(* A list with one more option, behind those with the same number.         *)
Including(list, o) ==
    SelectSeq(list, LAMBDA x : x.number <= o.number) \o <<o>>
        \o SelectSeq(list, LAMBDA x : x.number > o.number)

FirstOf(list, n) == CHOOSE i \in DOMAIN list :
                       /\ list[i].number = n
                       /\ \A j \in DOMAIN list : list[j].number = n => i <= j

Without(list, n) == RemoveAt(list, FirstOf(list, n))

(* A request through a proxy has a hop limit, if there is room for it.     *)
Limited(list) == IF Has(list, HopLimit.number) THEN list ELSE Including(list, HopLimit)

(* An option that is not repeatable does not come right behind its like at
   the end of the message.  This is less than its name says: if an option
   with a greater number is there already, the second one is taken.        *)
Repeats(list, o) == /\ o.number \in NonRepeatable
                    /\ list # <<>> /\ Last(list).number = o.number

(* What may come of adding an option to a list.                            *)
Added(list, o) ==
    {list} \cup
    (IF Repeats(list, o) THEN {}
     ELSE {Including(list, o)} \cup
          IF o.number \in Proxies THEN {Limited(list), Including(Limited(list), o)} ELSE {})

-----------------------------------------------------------------------------

Init == token = {<<>>} /\ options = <<>> /\ payload = <<>> /\ call = <<>>

Empty == token \subseteq {<<>>} /\ options = <<>> /\ payload = <<>>

(* A message that is refused its first token says something else of its
   token than it holds, until it is given one.                             *)
Name(t) == /\ call' = <<"token", t>>
           /\ \/ token' = {t}
              \/ Empty /\ token' = {}
              \/ ~Empty /\ UNCHANGED token
           /\ UNCHANGED <<options, payload>>

Add(o) == /\ call' \in {<<"add", o>>, <<"insert", o>>}
          /\ options' \in Added(options, o)
          /\ UNCHANGED <<token, payload>>

(* One after the other, in the order of their numbers.                     *)
AddAll(list) ==
    /\ call' = <<"list", list>>
    /\ IF payload = <<>>
       THEN options' \in FoldLeft(LAMBDA S, o : UNION {Added(x, o) : x \in S}, {options},
                                  FoldLeft(Including, <<>>, list))
       ELSE UNCHANGED options
    /\ UNCHANGED <<token, payload>>

Drop(n) == /\ call' = <<"remove", n>>
           /\ options' = IF Has(options, n) THEN Without(options, n) ELSE options
           /\ UNCHANGED <<token, payload>>

(* The first option of the number gets another value.                      *)
Update(o) ==
    /\ call' = <<"update", o>>
    /\ options' \in IF Has(options, o.number)
                    THEN {options, [options EXCEPT ![FirstOf(options, o.number)] = o]}
                    ELSE Added(options, o)
    /\ UNCHANGED <<token, payload>>

Load(data) == /\ call' = <<"data", data>>
              /\ payload' \in IF payload = <<>> THEN {<<>>, data} ELSE {payload}
              /\ UNCHANGED <<token, options>>

(* Go on with a copy that has another token, fewer options, no payload.    *)
Copy(t, dropped) ==
    LET kept == SelectSeq(options, LAMBDA o : o.number \notin dropped)
    IN  /\ call' = <<"copy", t, dropped>>
        /\ token' \in {{t}, {}}
        /\ \/ options' = kept
           \/ (\E n \in Proxies : Has(kept, n)) /\ options' = Limited(kept)
        /\ payload' = <<>>

Next ==
    \/ \E t \in Tokens : Name(t) \/ \E dropped \in Filters : Copy(t, dropped)
    \/ \E n \in Numbers, v \in Values : Add(Option(n, v)) \/ Update(Option(n, v))
    \/ \E n \in Numbers : Drop(n)
    \/ \E list \in Lists : AddAll(list)
    \/ \E data \in Payloads : Load(data)

Spec == Init /\ [][Next]_messageVars

=============================================================================
