---------------------------- MODULE StunMessage ----------------------------
(***************************************************************************)
(* StunMessage (ice/stun.h, ice/stun.cpp): how messages are put together,  *)
(* written, read back and validated.                                       *)
(*                                                                         *)
(* On the wire a message is its header, of which the type, the transaction *)
(* id and the length field are kept, and its attributes, each with a type, *)
(* a length and a value.  A value is padded to a multiple of four bytes.   *)
(* The magic cookie and the two top bits of the type are those of STUN.    *)
(***************************************************************************)
EXTENDS Naturals, Sequences, FiniteSetsExt

k_stun_attribute_header_size == 4

(* An attribute's value is tagged with what it is, a signature with what   *)
(* it was computed over: two are equal only if their inputs are.           *)
Attribute(type, len, value) == [type |-> type, len |-> len, value |-> value]

ComputeHmac(key, bytes) == <<"hmac", key, bytes>>
ComputeCrc32(bytes) == <<"crc", bytes>>

Padded(len) == ((len + 3) \div 4) * 4

Size(attr) == k_stun_attribute_header_size + Padded(attr.len)

(* The bytes that follow the header.                                       *)
WireLength(attrs) ==
    LET length[n \in 0 .. Len(attrs)] == IF n = 0 THEN 0 ELSE length[n - 1] + Size(attrs[n])
    IN length[Len(attrs)]

(* The message up to its n-th attribute, with a length field of its own.   *)
Prefix(m, n, length) == [m EXCEPT !.attrs = SubSeq(@, 1, n), !.length = length]

NewMessage(type, tid) == [type |-> type, tid |-> tid, length |-> 0, attrs |-> <<>>]

(* Mutant: the padding is not counted.                                     *)
add_attribute_unpadded(m, attr) ==
    [m EXCEPT !.length = @ + k_stun_attribute_header_size + attr.len,
              !.attrs = Append(@, attr)]

(* add_attribute(): the length field grows by the padded attribute.        *)
add_attribute(m, attr) ==
    [m EXCEPT !.length = @ + Size(attr), !.attrs = Append(@, attr)]

(* A message to which attributes are added one after the other.            *)
Build(type, tid, attrs) ==
    LET m[n \in 0 .. Len(attrs)] ==
            IF n = 0 THEN NewMessage(type, tid) ELSE add_attribute(m[n - 1], attrs[n])
    IN m[Len(attrs)]

(* What a signature of len bytes is computed over: all that precedes it,   *)
(* with a length field that counts it, since it is appended first.         *)
SignedBytes(m, len) ==
    [m EXCEPT !.length = add_attribute(m, Attribute("signature", len, <<>>)).length]

add_message_integrity(m, password) ==
    add_attribute(m, Attribute("MESSAGE_INTEGRITY", 20, ComputeHmac(password, SignedBytes(m, 20))))

add_fingerprint(m) ==
    add_attribute(m, Attribute("FINGERPRINT", 4, ComputeCrc32(SignedBytes(m, 4))))

(* validate_fingerprint(): the last attribute, over all before it.         *)
validate_fingerprint(m) ==
    LET n == Len(m.attrs)
    IN /\ n > 0
       /\ m.attrs[n].type = "FINGERPRINT" /\ m.attrs[n].len = 4
       /\ m.attrs[n].value = ComputeCrc32(Prefix(m, n - 1, m.length))

(* read(): the length field must be right.                                 *)
read(m) == m.length = WireLength(m.attrs)

(* Of the attributes read() keeps those get_attribute_value_type() knows.   *)
Kept == {"USERNAME", "MESSAGE_INTEGRITY", "PRIORITY"}

(* _get_attribute(): the first attribute of a type that was kept.          *)
Has(m, type) == type \in Kept /\ \E i \in DOMAIN m.attrs : m.attrs[i].type = type

First(m, type) == Min({i \in DOMAIN m.attrs : m.attrs[i].type = type})

ValueOf(m, type) == m.attrs[First(m, type)].value

(* validate_message_integrity(): over all before it, with the length field *)
(* of a message that ends with it.                                         *)
integrity_ok(m, password) ==
    /\ Has(m, "MESSAGE_INTEGRITY")
    /\ LET at == First(m, "MESSAGE_INTEGRITY")
           length == WireLength(SubSeq(m.attrs, 1, at))
       IN m.attrs[at].value = ComputeHmac(password, Prefix(m, at - 1, length))

(* get_error_code_value(): read() never keeps an ERROR_CODE.               *)
get_error_code_value(m) == IF Has(m, "ERROR_CODE") THEN ValueOf(m, "ERROR_CODE")[2] ELSE 600
=============================================================================
