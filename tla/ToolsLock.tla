---------------------------- MODULE ToolsLock ----------------------------
(***************************************************************************)
(* Verification of a tools/list result against a lock (gateway/lock.go).   *)
(*                                                                         *)
(* An entry of a tools array is [name, form]: form stands for description  *)
(* and schema, "broken" for an entry that cannot be decoded.  An entry     *)
(* without a name has name NoName.  The fingerprint hash of an entry is    *)
(* the entry itself, that is, hashing is injective on the canonical        *)
(* encoding.  A lock is [mode, detail, list]: mode "none" is the nil       *)
(* *preparedLock, list is the listing that was captured, detail says       *)
(* whether the lock holds one fingerprint per tool or only the digest of   *)
(* the whole list.                                                         *)
(***************************************************************************)
EXTENDS Sequences, SequencesExt

\* toolsListHash: the entries sorted by name, entries of one name in the
\* order they were sent, so two listings have the same digest exactly when
\* they agree name by name.
SameDigest(x, y) ==
    \A n \in {x[i].name : i \in DOMAIN x} \cup {y[i].name : i \in DOMAIN y} :
        SelectSeq(x, LAMBDA e : e.name = n) = SelectSeq(y, LAMBDA e : e.name = n)

\* toolFingerprint succeeds.
Parses(e) == e.form # "broken"

\* l.detail[tool.name] exists and is tool.hash.  LockInit captures no two
\* tools of one name and none without, so the map is the set of entries.
Pinned(lock, e) == e \in ToSet(lock.list)

\* verify(elems) = ""
Verifies(lock, elems) ==
    /\ \A i \in DOMAIN elems : Parses(elems[i])
    /\ IF lock.detail /\ lock.list # <<>>
       THEN \A i \in DOMAIN elems : Pinned(lock, elems[i])
       ELSE SameDigest(lock.list, elems)
==========================================================================
