------------------------------- MODULE Names --------------------------------
(***************************************************************************)
(* Ids and what a user types for them (lib/backends/sdc/utils.js and       *)
(* lib/common.js).  A text is a sequence; a hexadecimal digit is a member  *)
(* of HexDigits, any other text is made of other members.  The hyphens of  *)
(* a uuid are left out: putting them in changes no comparison made here.   *)
(***************************************************************************)
EXTENDS Integers, FiniteSets, Sequences, SequencesExt

CONSTANTS UuidLength,  \* digits of a uuid: 32
          ShortLength, \* digits of a short uuid, a prefix: 8
          Characters, HexDigits

ASSUME NamesAssumption ==
    /\ UuidLength \in Nat \ {0} /\ ShortLength \in 1..UuidLength
    /\ HexDigits \subseteq Characters

Text_ == Seq(Characters)
NoText == <<>>
IsHex(text) == ToSet(text) \subseteq HexDigits
IsUUID(text) == IsHex(text) /\ Len(text) = UuidLength
IsShortUuid(text) == IsHex(text) /\ Len(text) = ShortLength

(***************************************************************************)
(* The label that names a package, and what can be the name of one.        *)
(***************************************************************************)
PackageLabel == "com.joyent.package"
PunctuationPair == "--"
IsPackageName(text) == Len(text) > 1 /\ PunctuationPair \notin ToSet(text)

(***************************************************************************)
(* The first n characters of a text, and those after them.                 *)
(***************************************************************************)
Head_(text, n) == SubSeq(text, 1, IF n < Len(text) THEN n ELSE Len(text))
Tail_(text, n) == SubSeq(text, n + 1, Len(text))

(***************************************************************************)
(* What becomes of a state when a list is gone through from its first      *)
(* entry to its last; and the entries of a list that are in a set.         *)
(***************************************************************************)
Through(seq, start, Step(_, _)) ==
    LET upto[i \in 0..Len(seq)] == IF i = 0 THEN start ELSE Step(upto[i - 1], seq[i])
    IN upto[Len(seq)]
Kept(seq, set) ==
    LET Keep(kept, e) == IF e \in set THEN Append(kept, e) ELSE kept
    IN Through(seq, <<>>, Keep)

(***************************************************************************)
(* The id of a container is its uuid followed by as many random digits,    *)
(* and its uuid alone until these are stored.  The id of a network is its  *)
(* uuid, twice.  An id typed in part becomes a prefix of a uuid.           *)
(***************************************************************************)
dockerIdFromVmObj(vm) == vm.uuid \o vm.tail
networkUuidToDockerId(uuid) == uuid \o uuid
dockerIdToUuid(id) == Head_(id, UuidLength)
shortNetworkIdToUuidPrefix(id) == Head_(id, UuidLength)
=============================================================================
