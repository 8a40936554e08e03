-------------------------------- MODULE KcnUri --------------------------------
(***************************************************************************)
(* The URIs of lib/kcn_uri.c: memory from malloc(3) with a string in it    *)
(* and the length the string is taken to have.  A cell of the memory is a  *)
(* character, or a word of characters that are not encoded.                *)
(***************************************************************************)
EXTENDS Naturals, FiniteSets, SequencesExt

CONSTANTS
    Char, \* the characters
    Hex,  \* a character that has to be encoded -> its two digits
    NULL  \* the pointer

Nul == "\\0"
Junk == "junk"

kcn_uri_str_isnormal(c) == c \notin DOMAIN Hex \cup {" "}

(* Those with a meaning in a URI are encoded, differently and with digits  *)
(* that are not.                                                           *)
ASSUME UriAssumption ==
    /\ " " \in Char /\ Nul \notin Char
    /\ {"\t", "&", "=", "%", "+"} \cap Char \subseteq DOMAIN Hex
    /\ \A c \in DOMAIN Hex :
          /\ Hex[c] \in [1..2 -> Char]
          /\ \A d \in 1..2 : kcn_uri_str_isnormal(Hex[c][d])
          /\ \A other \in DOMAIN Hex : Hex[other] = Hex[c] => other = c

(* Mutant of the next: encoded or not, a character takes one cell.         *)
kcn_uri_str_len_plain(s, isencoding) == Len(s)

(* kcn_uri_str_len: an encoded character takes three cells, but a space.   *)
kcn_uri_str_len(s, isencoding) ==
    LET encoded == {k \in DOMAIN s : ~ kcn_uri_str_isnormal(s[k]) /\ s[k] # " "}
    IN  Len(s) + (IF isencoding THEN 2 * Cardinality(encoded) ELSE 0)

kcn_uri_new(base) == [mem |-> Append(base, Nul), len |-> Len(base)]

(* realloc(3) keeps what there was; the string is terminated where it will *)
(* end.                                                                    *)
kcn_uri_ensure_trailing_space(ku, tlen) ==
    LET nlen == ku.len + tlen
        old(k) == IF k <= Len(ku.mem) THEN ku.mem[k] ELSE Junk
    IN  [ku EXCEPT !.mem = [k \in 1..nlen + 1 |-> IF k > nlen THEN Nul ELSE old(k)]]

(* Mutant of the next: the length of the string is not reset.              *)
kcn_uri_resize_cut(ku, len) == [ku EXCEPT !.mem = [@ EXCEPT ![len + 1] = Nul]]

kcn_uri_resize(ku, len) ==
    [mem |-> [ku.mem EXCEPT ![len + 1] = Nul], len |-> len]

(* Cells are copied to the end of the string, over its terminator.         *)
Put(ku, s) ==
    LET end == ku.len + Len(s)
        size == IF end > Len(ku.mem) THEN end ELSE Len(ku.mem)
    IN  [mem |-> [k \in 1..size |-> IF k \in ku.len + 1..end THEN s[k - ku.len]
                                    ELSE ku.mem[k]],
         len |-> end]

kcn_uri_puts(ku, s) ==
    Put(kcn_uri_ensure_trailing_space(ku, kcn_uri_str_len(s, FALSE)), s)

Encoding(c) ==
    IF kcn_uri_str_isnormal(c) THEN <<c>>
    ELSE IF c = " " THEN <<"+">> ELSE <<"%">> \o Hex[c]

kcn_uri_encputs(ku, s) ==
    Put(kcn_uri_ensure_trailing_space(ku, kcn_uri_str_len(s, TRUE)),
        FlattenSeq([k \in DOMAIN s |-> Encoding(s[k])]))

kcn_uri_param_puts(ku, param, val) ==
    IF val = NULL THEN ku
    ELSE kcn_uri_encputs(kcn_uri_puts(ku, <<"&", param, "=">>), val)

(* A string as C takes it: up to the first terminator, and on into what    *)
(* follows where there is none.                                            *)
CString(mem) ==
    LET end == SelectInSeq(mem, LAMBDA c : c = Nul)
    IN  IF end = 0 THEN Append(mem, Junk) ELSE SubSeq(mem, 1, end - 1)
=============================================================================
