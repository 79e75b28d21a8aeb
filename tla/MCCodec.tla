------------------------------ MODULE MCCodec ------------------------------
(* Payloads of other software for Codec: a message header and a few bytes, *)
(* or a message header and two objects, which may be of one unique type.   *)
EXTENDS Codec

CONSTANTS MaxForeign, ForeignTypes

Objects ==
    {serialize(o) : o \in UNION {{msg_sequence_number(v), information_code(v)} : v \in Values}
                          \cup {anslp_ipap_message(b) : b \in IpapMessages}}

MCForeign ==
    {<<>>} \cup {<<1>>}
    \cup {<<t, 0>> \o s : t \in ForeignTypes, s \in SeqOf(0 .. ANSLP_IPAP_MESSAGE, MaxForeign)}
    \cup {<<t, 0>> \o s \o r : t \in ForeignTypes, s \in Objects, r \in Objects}
=============================================================================
