----------------------------- MODULE MeshNames -----------------------------
(***************************************************************************)
(* The names that people type for wallets: crates/proto/src/address.rs.    *)
(* A short id of IdBits bits is written as NameLen characters of Crockford *)
(* base 32 after an M; dashes, blanks and case, which parsing drops, are   *)
(* left out.                                                               *)
(***************************************************************************)
EXTENDS Shifts, SequencesExt

CONSTANT NameLen  \* 13: characters after the M

ASSUME NameAssumption == NameLen \in Nat \ {0}

\* 64 bits are padded by one zero bit to 13 characters of 5 bits
IdBits == 5 * NameLen - 1
Id == 0 .. Pow2[IdBits] - 1

Alphabet ==
  <<"0", "1", "2", "3", "4", "5", "6", "7", "8", "9", "A", "B", "C", "D", "E", "F",
    "G", "H", "J", "K", "M", "N", "P", "Q", "R", "S", "T", "V", "W", "X", "Y", "Z">>

\* Characters that are taken for another one
Lookalike == [I |-> "1", L |-> "1", O |-> "0", U |-> "V"]

Normal(c) == IF c \in DOMAIN Lookalike THEN Lookalike[c] ELSE c

Digit == [c \in ToSet(Alphabet) |-> (CHOOSE i \in DOMAIN Alphabet : Alphabet[i] = c) - 1]

\* base32_encode and mesh_name
NameBody(id) ==
  [i \in 1 .. NameLen |-> Alphabet[Low(Shr(2 * id, 5 * (NameLen - i)), 5) + 1]]
MeshName(id) == <<"M">> \o NameBody(id)

StripAllM(s) == LET rest == {i \in DOMAIN s : s[i] # "M"}
                IN  IF rest = {} THEN <<>>
                    ELSE SubSeq(s, CHOOSE i \in rest : \A j \in rest : i <= j, Len(s))
StripM(s) == IF s # <<>> /\ Head(s) = "M" THEN Tail(s) ELSE s

\* parse_mesh_name and base32_decode: the ids that s stands for, one or none
ParseName(s) ==
  LET t == StripM([i \in DOMAIN s |-> Normal(s[i])])
      bits[i \in 0 .. Len(t)] == IF i = 0 THEN 0 ELSE 32 * bits[i - 1] + Digit[t[i]]
  IN  IF Len(t) # NameLen \/ ~(ToSet(t) \subseteq DOMAIN Digit) THEN {}
      ELSE {Shr(bits[Len(t)], 1)}

-----------------------------------------------------------------------------
SpeltAs(c) == {c} \cup {l \in DOMAIN Lookalike : Lookalike[l] = c}

\* The ways to type a name with lookalikes in one place
Misspelt(s) == {[s EXCEPT ![i] = c] : i \in DOMAIN s, c \in SpeltAs("0") \cup SpeltAs("1") \cup SpeltAs("V")}

(* A name stands for the id it was made from, also when characters that    *)
(* look alike are typed for each other, and no two ids share a name.  Left *)
(* open is a name without its M that goes on with another M.               *)
NameIsReadBack(id) ==
  LET name == MeshName(id)
      body == NameBody(id)
  IN  /\ ParseName(name) = {id}
      /\ \A s \in Misspelt(name) :
           (\A i \in DOMAIN s : Normal(s[i]) = name[i]) => ParseName(s) = {id}
      /\ (Head(body) # "M" => ParseName(body) = {id})
=============================================================================
