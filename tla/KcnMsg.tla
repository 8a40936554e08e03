-------------------------------- MODULE KcnMsg --------------------------------
(***************************************************************************)
(* The messages of lib/kcn_msg.c between key2loc or kcndbctl and kcndbd.   *)
(* On the wire a message is two cells, its header and its body, so that a  *)
(* read may end before, between or after them: a message arrives in parts. *)
(* Decoding works on a buffer of cells (KcnBuf).  Only what the programs   *)
(* encode is ever decoded: the version and the length always are right.    *)
(***************************************************************************)
EXTENDS KcnBuf

CONSTANTS
    Loc,       \* locators, none of them empty
    NoLoc,     \* loclen = 0: of the response that ends the responses
    Errno,     \* what a response may say, 0 for success
    Rec,       \* records to add
    UINT8      \* 256, the number of values kmq_maxcount and kmr_error have

ASSUME MsgAssumption ==
    /\ NoLoc \notin Loc /\ "0" \in Errno /\ "EAGAIN" \in Errno
    /\ UINT8 \in Nat \ {0}

Header == {"query", "response", "add"}

Query == [maxcount : 0..UINT8-1]

Response == [error : Errno, loc : Loc \cup {NoLoc}]

Add == [rec : Rec]

(* A cell holds a header or a body.                                        *)
Cell == [type : Header] \cup Query \cup Response \cup Add

KCN_MSG_HDRSIZ == 1
KCN_MSG_BODYSIZ == 1

kcn_msg_query_encode(max) == <<[type |-> "query"], [maxcount |-> max % UINT8]>>

kcn_msg_response_encode(error, loc) ==
    <<[type |-> "response"], [error |-> error, loc |-> loc]>>

kcn_msg_add_encode(rec) == <<[type |-> "add"], [rec |-> rec]>>

(* EAGAIN of kcn_msg_header_decode: the header or the body is not there    *)
(* yet.  The cursor is put back to the head, the buffer keeps what it has. *)
kcn_msg_partial(kb) ==
    kcn_buf_trailingdata(kb) < KCN_MSG_HDRSIZ + KCN_MSG_BODYSIZ

kcn_msg_type(kb) == kcn_buf_get(kb, 1).type

kcn_msg_body(kb) == kcn_buf_get(kb, 2)

(* The header is trimmed and then the body.                                *)
kcn_msg_decoded(kb) ==
    LET h == kcn_buf_forward(kb, KCN_MSG_HDRSIZ)
        b == kcn_buf_trim_head(h, kcn_buf_headingdata(h))
        f == kcn_buf_forward(b, KCN_MSG_BODYSIZ)
    IN  kcn_buf_trim_head(f, kcn_buf_headingdata(f))
=============================================================================
