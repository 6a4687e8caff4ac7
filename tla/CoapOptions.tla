------------------------------ MODULE CoapOptions ------------------------------
(***************************************************************************)
(* coap_option.c of libcoap: how one option is written into a message.  An *)
(* option is a byte with two nibbles, one for the difference between its   *)
(* number and the number before it, one for the length of its value; a     *)
(* nibble of 13 or 14 stands for one or two further bytes.  Tokens of      *)
(* thirteen bytes and more carry their length in the same way.             *)
(*                                                                         *)
(* Inserting or removing an option changes the difference of the one       *)
(* behind it, and with it perhaps the length of that one's header, which   *)
(* coap_pdu.c patches in place, case by case.                              *)
(***************************************************************************)
EXTENDS Integers, Sequences

Byte == 0..255

(* COAP_PAYLOAD_START, which no option begins with.                        *)
Marker == 255

Nibble(n) == IF n < 13 THEN n ELSE IF n < 269 THEN 13 ELSE 14

Extension(n) ==
    IF n < 13 THEN <<>>
    ELSE IF n < 269 THEN <<n - 13>>
    ELSE <<((n - 269) \div 256) % 256, (n - 269) % 256>>

ExtensionSize(n) == IF n < 13 THEN 0 ELSE IF n < 269 THEN 1 ELSE 2

First(delta, length) == 16 * Nibble(delta) + Nibble(length)

SetHeader(delta, length) ==
    <<First(delta, length)>> \o Extension(delta) \o Extension(length)

EncodeSize(delta, length) == 1 + ExtensionSize(delta) + ExtensionSize(length) + length

Encode(delta, value) == SetHeader(delta, Len(value)) \o value

-----------------------------------------------------------------------------
(* Reading an option                                                       *)

Follow(nibble) == IF nibble = 14 THEN 2 ELSE IF nibble = 13 THEN 1 ELSE 0

(* The number that a nibble and the bytes behind position i stand for.     *)
Extended(nibble, bytes, i) ==
    IF nibble < 13 THEN nibble
    ELSE IF nibble = 13 THEN 13 + bytes[i + 1]
    ELSE 269 + 256 * bytes[i + 1] + bytes[i + 2]

NoOption == [delta |-> 0, length |-> 0, size |-> 0]

(* coap_opt_parse: size is 0 for what is no option.  delta has 16 bits, and
   its high byte must not overflow them.                                   *)
Parse(bytes) ==
    IF bytes = <<>> THEN NoOption
    ELSE LET d == bytes[1] \div 16
             l == bytes[1] % 16
             header == 1 + Follow(d) + Follow(l)
         IN  IF d = 15 \/ l = 15 \/ Len(bytes) < header \/ (d = 14 /\ bytes[2] = 255)
             THEN NoOption
             ELSE LET length == Extended(l, bytes, 1 + Follow(d))
                  IN  IF Len(bytes) < header + length THEN NoOption
                      ELSE [delta |-> Extended(d, bytes, 1) % 65536,
                            length |-> length, size |-> header + length]

-----------------------------------------------------------------------------
(* The first bytes of the option behind a change, up to the extension of
   its length: first is its first byte.                                    *)

(* coap_insert_option: its difference falls from old to new.               *)
Lowered(first, old, new) ==
    IF old < 13 \/ new < 13 THEN <<(first % 16) + 16 * new>>
    ELSE IF old < 269 THEN <<first, new - 13>>
    ELSE IF new < 269 THEN <<(first % 16) + 208, new - 13>>
    ELSE <<first, ((new - 269) \div 256) % 256, (new - 269) % 256>>

(* MUTANT: the low byte of a great difference is not written.              *)
Raised_HighOnly(first, old, new) ==
    IF new < 13 THEN <<(first % 16) + 16 * new>>
    ELSE IF new < 269 THEN <<(first % 16) + 208, new - 13>>
    ELSE <<(first % 16) + 224, ((new - 269) \div 256) % 256>>

(* coap_remove_option: its difference rises from old to new.               *)
Raised(first, old, new) ==
    IF new < 13 THEN <<(first % 16) + 16 * new>>
    ELSE IF new < 269 /\ old < 13 THEN <<(first % 16) + 208, new - 13>>
    ELSE IF new < 269 THEN <<first, new - 13>>
    ELSE IF old < 269
         THEN <<(first % 16) + 224, ((new - 269) \div 256) % 256, (new - 269) % 256>>
    ELSE <<first, ((new - 269) \div 256) % 256, (new - 269) % 256>>

=============================================================================
