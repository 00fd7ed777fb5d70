----------------------------- MODULE MCManifests -----------------------------
(***************************************************************************)
(* Two containers, of which a file may hold one, both or none, with and    *)
(* without resources, numbers, and resources with nothing behind the key.  *)
(***************************************************************************)
EXTENDS Manifests

MCQuantities == {"100m", "200m", "1"}
MCNumbers    == {"1"}

Node1(k, n)        == Mapping([x \in {k} |-> n])
Node2(k, n, l, m)  == Mapping([x \in {k, l} |-> IF x = k THEN n ELSE m])
Values1(r, v)      == [x \in {r} |-> v]
One(c, s, values)  == [name |-> c, sections |-> [x \in {s} |-> values]]

MCUpdates ==
    {<<>>,
     <<One("app", "requests", Values1("cpu", "100m"))>>,
     <<One("app", "limits", Values1("memory", "1"))>>,
     <<One("app", "requests", [r \in Resources |-> "200m"]),
       One("sidecar", "limits", Values1("cpu", "1"))>>,
     <<One("sidecar", "limits", Values1("cpu", "200m")), One("app", "limits", <<>>)>>}

Image == Scalar("image")
Rich  == Node2("image", Image, "resources",
               Node2("requests", Node2("cpu", Scalar("1"), "memory", Scalar("100m")),
                     "limits", Node1("cpu", Scalar("200m"))))
Poor  == Node1("image", Image)
Blank == Node2("image", Image, "resources", Null)
Half  == Node2("image", Image, "resources", Node1("limits", Null))

Start(t, f, ks) == [type |-> t, file |-> f, kustomization |-> ks]

\* No patches, patches of others under either key, under both, and a key with nothing
\* behind it.
Kustomizations ==
    {Empty, Node1("patches", Null), Node1("patchesStrategicMerge", Listing(<<"theirs">>)),
     Node2("patches", Listing(<<"theirs">>), "patchesStrategicMerge", Listing(<<"ours">>))}

MCStarts ==
         {Start("raw", f, Empty) : f \in {Node1("app", Rich), Node2("app", Rich, "sidecar", Poor),
                                          Node2("app", Blank, "sidecar", Half)}}
    \cup {Start("helm", f, Empty) : f \in {Rich, Poor, Node2("app", Rich, "old", Node1("app", Rich)),
                                           Node2("app", Blank, "sidecar", Half)}}
    \cup {Start("kustomize", f, ks) : f \in {NoFile, Node1("app", Half)}, ks \in Kustomizations}

MCValuePaths == {<<"resources">>, <<"app", "resources">>}
MCPathMaps   == {[c \in {"app", "sidecar"} |-> <<c, "resources">>]}
MCPatchPaths == {"ours", "theirs"}

MCLeaves ==
    LET Tops == {<<>>, <<"app">>, <<"sidecar">>, <<"old", "app">>}
    IN  {t \o <<"image">> : t \in Tops}
        \cup {t \o <<"resources", s, r>> : t \in Tops, s \in Sections, r \in Resources}
=============================================================================
