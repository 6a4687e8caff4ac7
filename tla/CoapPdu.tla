-------------------------------- MODULE CoapPdu --------------------------------
(***************************************************************************)
(* coap_pdu.c of libcoap: a request under construction.  Token, options,   *)
(* payload marker and payload lie one behind the other in one buffer, and  *)
(* every operation finds its place by walking through the options, moves   *)
(* what is behind it and patches the header of the next option.            *)
(***************************************************************************)
EXTENDS CoapOptions, SequencesExt, FiniteSetsExt

(* COAP_MAX_OPT, and the greatest length that the header of an option can
   say.                                                                    *)
MaxOpt == 65535
LongestValue == 65804

CONSTANTS
    Numbers,        \* option numbers
    Values,         \* option values
    Tokens,         \* tokens
    Payloads,       \* payloads, none of them empty
    Lists,          \* lists for coap_add_optlist_pdu
    Filters,        \* sets of numbers that coap_pdu_duplicate leaves out
    NonRepeatable,  \* numbers coap_option_check_repeatable refuses
    Chunk,          \* what is allocated at first, 256 in the code
    MaxSize,        \* pdu->max_size
    Reallocs        \* bound: how often one call gets more memory

ASSUME PduAssumption ==
    /\ Numbers \subseteq 1..MaxOpt /\ NonRepeatable \subseteq 1..MaxOpt
    /\ Chunk \in Nat \ {0} /\ MaxSize \in Nat \ {0} /\ Reallocs \in Nat
    /\ Values \cup Tokens \cup Payloads \subseteq Seq(Byte) /\ <<>> \notin Payloads
    /\ \A v \in Values : Len(v) <= LongestValue
    /\ Lists \subseteq Seq([number : 1..MaxOpt, value : Seq(Byte)])
    /\ \A list \in Lists : \A i \in DOMAIN list : Len(list[i].value) <= LongestValue

VARIABLES
    pdu,          \* the coap_pdu_t and its buffer
    said,         \* history: what the message says
    tokenRefused, \* history: a token did not fit, and none was set since
    call          \* history: the last call and its arguments

pduVars == <<pdu, said, tokenRefused, call>>

(* buf: the used bytes; etok, token: e_token_length, actual_token.length;
   data: bytes in front of the payload, 0 if there is none; maxOpt, alloc:
   max_opt, alloc_size.  memory: how many reallocations will succeed.      *)
Fresh == [buf |-> <<>>, etok |-> 0, token |-> 0, data |-> 0, maxOpt |-> 0,
          alloc |-> IF MaxSize < Chunk THEN MaxSize ELSE Chunk, memory |-> 0]

-----------------------------------------------------------------------------
(* Room, and moving what is behind a place                                 *)

(* What a function returns, and the message afterwards.                    *)
Done(p) == [ok |-> TRUE, pdu |-> p]
Fail(p) == [ok |-> FALSE, pdu |-> p]

Used(p) == Len(p.buf)

Resize(p, size) ==
    IF size <= p.alloc THEN Done([p EXCEPT !.alloc = size])
    ELSE IF size > MaxSize \/ p.memory = 0 THEN Fail(p)
    ELSE Done([p EXCEPT !.alloc = size, !.memory = @ - 1])

(* Twice as much, until it is enough, but no more than there may be.       *)
Doubled(alloc, size) ==
    LET double[n \in Nat \ {0}] == IF n >= size THEN n ELSE double[2 * n]
        enough == double[IF 2 * alloc < Chunk THEN Chunk ELSE 2 * alloc]
    IN  IF enough > MaxSize THEN MaxSize ELSE enough

CheckResize(p, size) ==
    IF size <= p.alloc THEN Done(p)
    ELSE IF Doubled(p.alloc, size) < size THEN Fail(p)
    ELSE Resize(p, Doubled(p.alloc, size))

(* MUTANT: the payload is moved, and not found again.                      *)
Splice_DataKept(p, from, bytes, rest) ==
    [p EXCEPT !.buf = SubSeq(@, 1, from - 1) \o bytes \o SubSeq(@, rest, Len(@))]

(* The bytes from the one at from to the one before rest are replaced.     *)
Splice(p, from, bytes, rest) ==
    [p EXCEPT !.buf = SubSeq(@, 1, from - 1) \o bytes \o SubSeq(@, rest, Len(@)),
              !.data = IF @ = 0 THEN 0 ELSE @ + Len(bytes) - (rest - from)]

-----------------------------------------------------------------------------
(* The options of a message, as an iterator finds them                     *)

(* From a place in the buffer on, with the number before it.               *)
Entries(p) ==
    LET from[x \in (1..Used(p) + 1) \X (0..MaxOpt)] ==
            LET at == x[1]
                o == Parse(SubSeq(p.buf, at, Used(p)))
                n == (x[2] + o.delta) % 65536
            IN  IF at > Used(p) \/ p.buf[at] = Marker \/ o.size = 0 THEN <<>>
                ELSE <<[at |-> at, number |-> n, delta |-> o.delta,
                        length |-> o.length, size |-> o.size]>> \o from[<<at + o.size, n>>]
    IN  from[<<p.etok + 1, 0>>]

ValueOf(p, e) == SubSeq(p.buf, e.at + e.size - e.length, e.at + e.size - 1)

HasNumber(es, n) == \E i \in DOMAIN es : es[i].number = n

FirstWith(es, n) == Min({i \in DOMAIN es : es[i].number = n})

-----------------------------------------------------------------------------
(* The token                                                               *)

TokenSpace(t) == Extension(Len(t)) \o t

AddToken(p, t) ==
    LET q == [p EXCEPT !.token = Len(t)]
        r == CheckResize(q, Len(TokenSpace(t)))
    IN  IF p.buf # <<>> THEN Fail(p)
        ELSE IF ~r.ok THEN Fail(q)
        ELSE Done([r.pdu EXCEPT !.buf = TokenSpace(t), !.etok = Len(TokenSpace(t)),
                                !.maxOpt = 0, !.data = 0])

(* MUTANT: the new length is noted before there is room for the token.     *)
UpdateToken_LengthFirst(p, t) ==
    LET space == TokenSpace(t)
        q == [p EXCEPT !.token = Len(t)]
        r == IF Len(space) <= p.etok THEN Done(q)
             ELSE CheckResize(q, Used(p) + Len(space) - p.etok)
    IN  IF p.buf = <<>> THEN AddToken(p, t)
        ELSE IF ~r.ok THEN Fail(q)
        ELSE Done([Splice(r.pdu, 1, space, p.etok + 1) EXCEPT !.etok = Len(space) % 256])

(* e_token_length has 32 bits, and gets the lower eight of the new length. *)
UpdateToken(p, t) ==
    LET space == TokenSpace(t)
        r == IF Len(space) <= p.etok THEN Done(p)
             ELSE CheckResize(p, Used(p) + Len(space) - p.etok)
    IN  IF p.buf = <<>> THEN AddToken(p, t)
        ELSE IF ~r.ok THEN Fail(p)
        ELSE Done([Splice(r.pdu, 1, space, p.etok + 1)
                     EXCEPT !.token = Len(t), !.etok = Len(space) % 256])

-----------------------------------------------------------------------------
(* Adding and inserting options                                            *)

Repeatable(n) == n \notin NonRepeatable

(* MUTANT: room is looked for without the header.                          *)
AddAtEnd_ValueOnly(p, n, v) ==
    LET r == CheckResize(p, Used(p) + Len(v))
        end == IF p.data = 0 THEN Used(p) + 1 ELSE p.data
    IN  IF ~r.ok THEN Fail(p)
        ELSE Done([Splice(r.pdu, end, Encode(n - p.maxOpt, v), end) EXCEPT !.maxOpt = n])

(* Behind the last option, in front of the marker if there is one.         *)
AddAtEnd(p, n, v) ==
    LET r == CheckResize(p, Used(p) + EncodeSize(n - p.maxOpt, Len(v)))
        end == IF p.data = 0 THEN Used(p) + 1 ELSE p.data
    IN  IF ~r.ok THEN Fail(p)
        ELSE Done([Splice(r.pdu, end, Encode(n - p.maxOpt, v), end) EXCEPT !.maxOpt = n])

(* In front of the option next, whose header may shrink.                   *)
PutBefore(p, next, n, v) ==
    LET delta == n - (next.number - next.delta)
        r == CheckResize(p, Used(p) + EncodeSize(delta, Len(v)))
    IN  IF ~r.ok THEN Fail(p)
        ELSE Done(Splice(r.pdu, next.at,
                         Encode(delta, v)
                            \o Lowered(p.buf[next.at], next.delta, next.number - n),
                         next.at + 1 + ExtensionSize(next.delta)))

(* In front of the first option with a greater number.  The check for
   repeatable options in this function is for a difference of 0, which that
   option never has.                                                       *)
InsertInside(p, n, v) ==
    LET es == Entries(p)
    IN  PutBefore(p, es[Min({i \in DOMAIN es : es[i].number > n})], n, v)

Place(p, n, v) == IF n < p.maxOpt THEN InsertInside(p, n, v) ELSE AddAtEnd(p, n, v)

HopLimit == 16
Proxies == {35, 39}

Refused(p, n) == n = p.maxOpt /\ ~Repeatable(n)

(* coap_insert_option and coap_add_option_internal for the hop limit, which
   is no proxy option itself.                                              *)
AddHopLimit(p) == IF Refused(p, HopLimit) THEN Fail(p) ELSE Place(p, HopLimit, <<16>>)

(* coap_add_option_internal.  A request with one of the proxy options gets
   a hop limit, which stays when the option itself does not fit.           *)
AddOption(p, n, v) ==
    IF Refused(p, n) THEN Fail(p)
    ELSE Place(IF n \in Proxies /\ ~HasNumber(Entries(p), HopLimit)
               THEN AddHopLimit(p).pdu ELSE p, n, v)

InsertOption(p, n, v) ==
    IF n >= p.maxOpt THEN AddOption(p, n, v) ELSE InsertInside(p, n, v)

(* coap_add_optlist_pdu: in the order of their numbers, those of one number
   in the order of the list; what cannot be added is left out.             *)
AddOptionList(p, list) ==
    LET LastOf(S) == Max({i \in S : \A j \in S : list[j].number <= list[i].number})
        added[S \in SUBSET DOMAIN list] ==
            IF S = {} THEN p
            ELSE AddOption(added[S \ {LastOf(S)}],
                           list[LastOf(S)].number, list[LastOf(S)].value).pdu
    IN  IF p.data # 0 THEN Fail(p) ELSE Done(added[DOMAIN list])

-----------------------------------------------------------------------------
(* Changing options, payload, copies                                       *)

(* The first option with the number; the one behind it then differs by
   more from the one before it.  Its longer header always fits into the
   space of the option that goes, so the shuffling in the code that makes
   room for it is never needed.                                            *)
RemoveOption(p, n) ==
    LET es == Entries(p)
        k == FirstWith(es, n)
        this == es[k]
        next == es[k + 1]
    IN  IF ~HasNumber(es, n) THEN Fail(p)
        ELSE IF k < Len(es)
        THEN Done(Splice(p, this.at,
                         Raised(p.buf[next.at], next.delta, this.delta + next.delta),
                         next.at + 1 + ExtensionSize(next.delta)))
        ELSE Done([Splice(p, this.at, <<>>, this.at + EncodeSize(this.delta, this.length))
                     EXCEPT !.maxOpt = @ - this.delta])

UpdateOption(p, n, v) ==
    LET es == Entries(p)
        this == es[FirstWith(es, n)]
        size == EncodeSize(this.delta, Len(v))
        r == IF size <= this.size THEN Done(p) ELSE CheckResize(p, Used(p) + size - this.size)
    IN  IF ~HasNumber(es, n) THEN InsertOption(p, n, v)
        ELSE IF ~r.ok THEN Fail(p)
        ELSE Done(Splice(r.pdu, this.at, Encode(this.delta, v), this.at + this.size))

(* MUTANT: the payload is said to begin with the marker.                   *)
AddData_FromMarker(p, bytes) ==
    LET r == Resize(p, Used(p) + Len(bytes) + 1)
    IN  IF p.data # 0 \/ ~r.ok THEN Fail(p)
        ELSE Done([r.pdu EXCEPT !.buf = @ \o <<Marker>> \o bytes, !.data = Used(p)])

(* coap_add_data: exactly as much is allocated, also if that is less.      *)
AddData(p, bytes) ==
    LET r == Resize(p, Used(p) + Len(bytes) + 1)
    IN  IF p.data # 0 \/ ~r.ok THEN Fail(p)
        ELSE Done([r.pdu EXCEPT !.buf = @ \o <<Marker>> \o bytes, !.data = Used(p) + 1])

(* coap_pdu_duplicate.  That the token fits is not looked at.  Without a
   filter, {} here, the options are copied as they are, else added one by
   one.                                                                    *)
Duplicate(p, t, dropped) ==
    LET q == AddToken([Fresh EXCEPT !.memory = p.memory], t).pdu
        body == SubSeq(p.buf, p.etok + 1, IF p.data = 0 THEN Used(p) ELSE p.data - 1)
        r == Resize(q, Len(body) + q.etok)
        es == Entries(p)
        copied[i \in 0..Len(es)] ==
            IF i = 0 THEN Done(q)
            ELSE IF ~copied[i - 1].ok \/ es[i].number \in dropped THEN copied[i - 1]
            ELSE AddOption(copied[i - 1].pdu, es[i].number, ValueOf(p, es[i]))
    IN  IF dropped # {} THEN copied[Len(es)]
        ELSE IF ~r.ok THEN Fail(q)
        ELSE Done([r.pdu EXCEPT !.buf = @ \o body, !.maxOpt = p.maxOpt])

-----------------------------------------------------------------------------
(* What the message says                                                   *)

(* At whoever receives it.  coap_pdu_parse_header: where the token ends is
   in the header, for which coap_pdu_encode_header takes the length that
   actual_token has, and in the bytes that follow it.  If they are missing,
   what is read behind the message makes the token too long in any case.   *)
ReceivedSpace(p) ==
    LET nibble == Nibble(p.token)
    IN  IF Used(p) < Follow(nibble) THEN Used(p) + 1
        ELSE Follow(nibble) + Extended(nibble, p.buf, 0)

Received(p) == [p EXCEPT !.etok = ReceivedSpace(p)]

(* coap_pdu_parse_opt: the options end at the first marker that is found
   where an option might begin, and their numbers stay within 16 bits.
   Whether each option may have its length is left out.                    *)
ParseOptions(p) ==
    LET es == Entries(p)
        end == IF es = <<>> THEN p.etok + 1 ELSE Last(es).at + Last(es).size
    IN  [good |-> /\ \A i \in DOMAIN es : es[i].number >= es[i].delta
                  /\ \/ end = Used(p) + 1
                     \/ end < Used(p) /\ p.buf[end] = Marker,
         maxOpt |-> IF es = <<>> THEN 0 ELSE Last(es).number,
         data |-> IF end > Used(p) THEN 0 ELSE end]

OptionsOf(p) ==
    LET es == Entries(p)
    IN  [i \in DOMAIN es |-> [number |-> es[i].number, value |-> ValueOf(p, es[i])]]

PayloadOf(p) == IF p.data = 0 THEN <<>> ELSE SubSeq(p.buf, p.data + 1, Used(p))

(* coap_pdu_get_token: what actual_token stands for, as far as the message
   goes.                                                                   *)
TokenOf(p) ==
    LET end == ExtensionSize(p.token) + p.token
    IN  SubSeq(p.buf, ExtensionSize(p.token) + 1, IF end <= Used(p) THEN end ELSE Used(p))

Message(p) == [token |-> TokenOf(p), options |-> OptionsOf(p), payload |-> PayloadOf(p)]

-----------------------------------------------------------------------------
(* The calls                                                               *)

PduInit == pdu = Fresh /\ said = Message(Fresh) /\ tokenRefused = FALSE /\ call = <<>>

With(memory) == [pdu EXCEPT !.memory = memory]

Becomes(p) == /\ pdu' = [p EXCEPT !.memory = 0]
              /\ said' = Message(pdu')

(* A token that does not fit leaves only its length behind.                *)
SetToken(t, m) ==
    \E r \in {AddToken(With(m), t), UpdateToken(With(m), t)} :
        /\ Becomes(r.pdu)
        /\ tokenRefused' = IF r.ok THEN FALSE ELSE tokenRefused \/ pdu.buf = <<>>
        /\ call' = <<"token", t>>

Calls(name, argument, p) == Becomes(p) /\ call' = <<name, argument>>

ChangeOptions(m) ==
    /\ \/ \E n \in Numbers, v \in Values :
             LET o == [number |-> n, value |-> v] IN
             \/ Calls("add", o, AddOption(With(m), n, v).pdu)
             \/ Calls("insert", o, InsertOption(With(m), n, v).pdu)
             \/ Calls("update", o, UpdateOption(With(m), n, v).pdu)
       \/ \E n \in Numbers : Calls("remove", n, RemoveOption(With(m), n).pdu)
       \/ \E list \in Lists : Calls("list", list, AddOptionList(With(m), list).pdu)
    /\ UNCHANGED tokenRefused

SetPayload(m) ==
    /\ \E bytes \in Payloads : Calls("data", bytes, AddData(With(m), bytes).pdu)
    /\ UNCHANGED tokenRefused

(* Whoever asked for the copy goes on with it, if there is one.            *)
Copy(t, m) ==
    \E dropped \in Filters :
        LET r == Duplicate(With(m), t, dropped) IN
        /\ r.ok
        /\ Becomes(r.pdu)
        /\ tokenRefused' = ~AddToken([Fresh EXCEPT !.memory = m], t).ok
        /\ call' = <<"copy", t, dropped>>

PduNext ==
    \E m \in 0..Reallocs :
        \/ \E t \in Tokens : SetToken(t, m) \/ Copy(t, m)
        \/ ChangeOptions(m)
        \/ SetPayload(m)

PduSpec == PduInit /\ [][PduNext]_pduVars

-----------------------------------------------------------------------------
(* Properties                                                              *)

(* The fields have their types, and the buffer holds bytes.                *)
PduTypeOK ==
    /\ pdu.buf \in Seq(Byte)
    /\ pdu.etok \in 0..Used(pdu) /\ pdu.data \in 0..Used(pdu)
    /\ pdu.token \in Nat /\ pdu.maxOpt \in 0..MaxOpt /\ pdu.alloc \in 0..MaxSize
    /\ pdu.memory = 0
    /\ tokenRefused \in BOOLEAN

(* The message never uses more than has been allocated for it.             *)
NeverOverruns == Used(pdu) <= pdu.alloc

(* Who reads the token's length in the header, and knows no more than the
   bytes, finds the options and the payload where the sender put them: the
   token leaves some bytes or none, max_opt is the number of the last
   option, and the marker in front of data is the first that is no part of
   an option.  After a token that did not fit, which coap_pdu_duplicate does
   not notice, the header announces one that is not there.                 *)
ReceiverAgrees ==
    \/ tokenRefused
    \/ /\ ReceivedSpace(pdu) <= Used(pdu)
       /\ LET read == ParseOptions(Received(pdu))
          IN  read.good /\ read.maxOpt = pdu.maxOpt /\ read.data = pdu.data

(* Sender and receiver agree where the token ends, and what is in front of
   that place is a token of the length that the header says, again unless
   the last one did not fit.                                               *)
TokenAgrees ==
    \/ tokenRefused
    \/ ReceivedSpace(pdu) = pdu.etok /\ Len(said.token) = pdu.token

(* Every call does to token, options and payload what it promises, in
   whatever order the calls come and whichever of them fail.  Of the token
   nothing is promised after one that did not fit.                         *)
List == INSTANCE OptionList WITH
            token <- IF tokenRefused THEN {} ELSE {said.token},
            options <- said.options,
            payload <- said.payload

ImplementsList == List!Spec

(* "length of Token space" (coap_pdu_internal.h:130): the options begin
   where the token ends.                                                   *)
OptionsBehindToken ==
    tokenRefused \/ pdu.etok = pdu.token + ExtensionSize(pdu.token)

=============================================================================
