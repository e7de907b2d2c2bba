---------------------------- MODULE Aggregator ----------------------------
(***************************************************************************)
(* The Aggregator of pkg/aggregator: it merges the base ConfigMap with the *)
(* external fragments, numbers every change with a revision, and keeps the *)
(* newest Caddyfile that a Caddy instance accepted, to be published as the *)
(* boot snapshot (the mirror ConfigMap).  Every method that holds the      *)
(* mutex is an operator on the struct's state.                             *)
(***************************************************************************)
EXTENDS Naturals, Admin

CONSTANTS Base,       \* contents of the base ConfigMap's Caddyfile key
          Fragment,   \* contents of an external ConfigMap's Caddyfile key
          Oversized,  \* merged Caddyfiles above the ConfigMap size limit
          Absent      \* no value: a missing key, object or Go nil

ASSUME AggregatorAssumption ==
    /\ Base \subseteq [text : BaseText, newline : BOOLEAN]
    /\ Fragment \subseteq [text : FragmentText \cup {""}, padded : BOOLEAN]
    /\ Oversized \subseteq MergedCaddyfile
    /\ Absent \notin Base \cup Fragment \cup Caddyfile \cup (OriginKey \X Caddyfile)

\* The Go empty string as a fragment.
EmptyFragment == [text |-> "", padded |-> FALSE]

AggregatorState ==
    [base : Base \cup {Absent}, externals : [Source -> Fragment \cup {Absent}],
     revision : Nat, accepted : Caddyfile \cup {Absent}, acceptedRevision : Nat]

\* A plausible bug: the snapshot read at start-up counts as revision 1.
NewAhead == [base |-> Absent, externals |-> [s \in Source |-> Absent],
             revision |-> 0, accepted |-> Absent, acceptedRevision |-> 1]

\* aggregator.New; base = Absent stands for hasBase = false.
New == [base |-> Absent, externals |-> [s \in Source |-> Absent],
        revision |-> 0, accepted |-> Absent, acceptedRevision |-> 0]

\* The tail of update: a change gets a new revision.
update(a, changed) == IF changed THEN [a EXCEPT !.revision = @ + 1] ELSE a

UpdateBase(a, base) == update([a EXCEPT !.base = base], a.base # base)

\* A missing map key reads as the empty string.
SetExternal(a, source, fragment) ==
    LET old == IF a.externals[source] = Absent THEN EmptyFragment ELSE a.externals[source]
    IN update([a EXCEPT !.externals[source] = fragment], old # fragment)

RemoveExternal(a, source) ==
    update([a EXCEPT !.externals[source] = Absent], a.externals[source] # Absent)

\* strings.TrimSpace of a fragment; an absent one is not written at all.
TrimSpace(fragment) == IF fragment = Absent THEN "" ELSE fragment.text

\* The text CurrentMerged builds.  The base gets its final newline whether it
\* had one or not, and blank fragments are skipped.
Merged(a) == [base |-> a.base.text, externals |-> [s \in Source |-> TrimSpace(a.externals[s])]]

\* CurrentMerged returns no error.
IsLoadable(a) == a.base # Absent /\ Merged(a) \notin Oversized

Snapshots == [caddyfile : MergedCaddyfile, revision : Nat]

CurrentMerged(a) == [caddyfile |-> Merged(a), revision |-> a.revision]

\* A plausible bug: whatever was loaded last is accepted.
AcceptsAny(a, snapshot) == TRUE

\* Aggregator.Accept: only a newer revision replaces the accepted snapshot.
Accepts(a, snapshot) == snapshot.revision > a.acceptedRevision

Accept(a, snapshot) ==
    IF Accepts(a, snapshot)
    THEN [a EXCEPT !.accepted = snapshot.caddyfile, !.acceptedRevision = snapshot.revision]
    ELSE a

\* The boot ConfigMap: its Caddyfile key and its snapshot-hash annotation.  A
\* missing ConfigMap reads as an empty one.
Mirrors == [data : Caddyfile \cup {Absent}, stamp : (OriginKey \X Caddyfile) \cup {Absent}]

NoMirror == [data |-> Absent, stamp |-> Absent]

\* A plausible bug: the hash does not depend on the origin key.
unkeyedHash(key, caddyfile) == <<CHOOSE k \in OriginKey : TRUE, caddyfile>>

\* The hash covers the bootstrap Caddyfile, hence the origin key, and the
\* snapshot; it is taken to be free of collisions.
snapshotHash(key, caddyfile) == <<key, caddyfile>>

\* What publishMirror applies.
Stamped(key, caddyfile) == [data |-> caddyfile, stamp |-> snapshotHash(key, caddyfile)]

\* The mirror carries a snapshot this manager's bootstrap vouches for.
IsStamped(mirror, key) == mirror.data # Absent /\ mirror.stamp = snapshotHash(key, mirror.data)

\* A plausible bug: only the annotation is compared.
IsAnnotationCurrent(a, mirror, key) == mirror.stamp = snapshotHash(key, a.accepted)

IsMirrorCurrent(a, mirror, key) == mirror.data = a.accepted /\ IsStamped(mirror, key)
===========================================================================
