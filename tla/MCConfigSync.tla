--------------------------- MODULE MCConfigSync ---------------------------
(* Small instances of ConfigSync for TLC. *)
EXTENDS ConfigSync, TLC

CONSTANTS n1, n2, Bases, Fragments, Keys

\* Base Caddyfile "a" admits the origin key "k1" only, "b" lists every key and
\* enforces none, and "off" moves the admin endpoint to another port.
MCAdminBlock(text) ==
    [onAdminPort |-> text # "off", enforceOrigin |-> text # "b",
     origins |-> IF text = "a" THEN Keys \cap {"k1"} ELSE Keys \ {""}]

\* Raw ConfigMap contents: with and without the final newline, with
\* surrounding space, and blank.
MCBase == {[text |-> t, newline |-> TRUE] : t \in Bases}
MCRawBase == [text : Bases, newline : BOOLEAN]
MCFragment == {[text |-> t, padded |-> t = ""] : t \in Fragments}

\* The external ConfigMaps are in namespaces of the same name.
MCNamespaceOf(source) == source

MCMalformed == {c \in MergedCaddyfile : \E s \in Source : c.externals[s] = "broken"}
MCOversized == {c \in MergedCaddyfile : \E s \in Source : c.externals[s] = "huge"}

NoLimit == [kind \in Disturbance |-> 0]

LimitBoot == [NoLimit EXCEPT !["base"] = 1, !["mirror"] = 1, !["crash"] = 1, !["fault"] = 1]
LimitFleet == [NoLimit EXCEPT !["external"] = 1]
LimitLost == [NoLimit EXCEPT !["base"] = 2, !["late"] = 1]
LimitResync == [LimitLost EXCEPT !["fault"] = 1]
LimitRotate == [NoLimit EXCEPT !["base"] = 1, !["crash"] = 2, !["restart"] = 1]
LimitRecover == [NoLimit EXCEPT !["label"] = 1, !["mirror"] = 1, !["fault"] = 1, !["crash"] = 1]

NodeSymmetry == Permutations({n1, n2})
===========================================================================
