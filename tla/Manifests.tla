------------------------------ MODULE Manifests ------------------------------
(***************************************************************************)
(* src/internal/gitops/writer: how recommendations get into the files of a *)
(* GitOps repository -- a manifest (raw), a values.yaml (helm) or a patch  *)
(* and its entry in kustomization.yaml (kustomize).  A Tailoring has one   *)
(* of these types (WriteBackConfig); one behaviour is about one type and   *)
(* the calls that may follow each other on its file.                       *)
(*                                                                         *)
(* Abstractions: a file is its tree of YAML nodes.  The order of keys and  *)
(* comments, which the writers keep, is left out.  A sequence of           *)
(* containers is a mapping from their names, of which Kubernetes allows no *)
(* two alike, and starts at the root of the tree.  The file has one        *)
(* document and no anchors.  Calls that return an error write nothing and  *)
(* are left out, as are JSON patches and descriptions of pull requests.    *)
(***************************************************************************)
EXTENDS Integers, Sequences

CONSTANTS
    Quantities,  \* what Quantity.String may give
    Numbers,     \* those that YAML takes for a number, like 1
    Updates,     \* bound: []ResourceUpdate, no two for one container
    Starts,      \* bound: type, file and kustomization before the first call
    ValuePaths,  \* bound: valuePath, the paths that UpdateValues is given
    PathMaps,    \* bound: containerPathMap, besides what is detected
    PatchPaths,  \* bound: paths of patches
    Leaves       \* bound: all paths from the root of a file to a scalar

VARIABLES
    type,          \* WriteBackConfig.Type
    file,          \* the tree of the file
    kustomization, \* the sections of kustomization.yaml that list patches
    asked,         \* history: the quantities that were last asked for, by place
    tags           \* history: the tag of the first scalar at a place

vars == <<type, file, kustomization, asked, tags>>

-----------------------------------------------------------------------------
(* YAML trees: yaml.Node of gopkg.in/yaml.v3. *)

Mapping(children) == [kind |-> "mapping", at |-> children]
Empty == Mapping(<<>>)

TagOf(text) == IF text \in Numbers THEN "int" ELSE "str"

\* A scalar without a tag is given the tag of its text when it is read again.
Scalar(text) == [kind |-> "scalar", value |-> text, tag |-> TagOf(text)]
Null         == [kind |-> "scalar", value |-> "", tag |-> "null"]

IsScalar(node) ==
    node.kind = "scalar" /\ node = [kind |-> "scalar", value |-> node.value, tag |-> node.tag]

\* What a reader makes of a scalar: text with another tag than its own is an error,
\* but for strings, which the encoder puts into quotes.
Reads(node) == IF node.tag \in {"str", TagOf(node.value)} THEN node.value ELSE "error"

Keys(node) == IF node.kind = "mapping" THEN DOMAIN node.at ELSE {}

\* The node under a key, which is created when there is none.
FindOrCreate(node, key) == IF key \in Keys(node) THEN node.at[key] ELSE Empty

\* The node with a child for a key.  The encoder writes no children of a scalar.
Put(node, key, child) ==
    IF node.kind = "mapping"
    THEN Mapping([k \in Keys(node) \cup {key} |-> IF k = key THEN child ELSE node.at[k]])
    ELSE node

\* The nodes on the way along a path: Way(root, path)[i] is reached by i keys.
Way(root, path) ==
    LET at[i \in 0 .. Len(path)] == IF i = 0 THEN root ELSE FindOrCreate(at[i - 1], path[i])
    IN  at

\* There is a node at the path.
Exists(root, path) == \A i \in 1 .. Len(path) : path[i] \in Keys(Way(root, path)[i - 1])

NodeAt(root, path) == Way(root, path)[Len(path)]

Places == UNION {{SubSeq(p, 1, i) : i \in 0 .. Len(p)} : p \in Leaves}

\* Whatever is in a tree is on the way to a scalar that a file may hold.
Fits(root) ==
    \A p \in Places : Exists(root, p) =>
        /\ \A k \in Keys(NodeAt(root, p)) : Append(p, k) \in Places
        /\ p \in Leaves => IsScalar(NodeAt(root, p))

-----------------------------------------------------------------------------
(* The inputs of the calls. *)

Sections  == {"requests", "limits"}
Resources == {"cpu", "memory"}

\* A patch that does not exist yet, and one that has no containers.
NoFile       == Null
NoContainers == [kind |-> "document"]

\* The keys of kustomization.yaml under which patches are listed.
PatchKeys == {"patches", "patchesStrategicMerge"}

\* What is under such a key, if it is not Null.
Listing(paths) == [kind |-> "sequence", paths |-> paths]

IsKustomization(node) ==
    /\ node.kind = "mapping" /\ Keys(node) \subseteq PatchKeys
    /\ \A k \in Keys(node) :
          \/ node.at[k] = Null
          \/ node.at[k].paths \in Seq(STRING) /\ node.at[k] = Listing(node.at[k].paths)

\* Where a file may have the resources of a container.
Homes == {p \in Places : \A s \in Sections, r \in Resources : p \o <<s, r>> \in Leaves}

\* Where one file has a scalar no other has a mapping, null aside, and the root
\* of a document is none: the writers refuse such a document.
ASSUME LeavesAssumption ==
    /\ Leaves \subseteq Seq(STRING) \ {<<>>}
    /\ \A p, q \in Leaves : Len(p) < Len(q) => SubSeq(q, 1, Len(p)) # p

\* No call has two updates for one container.
ASSUME UpdatesAssumption ==
    \A us \in Updates :
        /\ us \in Seq([name : STRING,
                      sections : UNION {[S -> UNION {[R -> Quantities] : R \in SUBSET Resources}]
                                           : S \in SUBSET Sections}])
        /\ \A i, j \in DOMAIN us : us[i].name = us[j].name => i = j

\* Wherever the writers may put resources is such a place, and containers that
\* share one are not given in one call.
ASSUME HomesAssumption ==
    /\ \A us \in Updates : \A i \in DOMAIN us : <<us[i].name, "resources">> \in Homes
    /\ ValuePaths \subseteq Homes
    /\ \A m \in PathMaps : \A c \in DOMAIN m :
          m[c] \in Homes /\ \A d \in DOMAIN m : m[c] = m[d] => c = d
    /\ \A p \in Places \ {<<>>} : p[Len(p)] = "resources" => p \in Homes

ASSUME StartsAssumption ==
    /\ PatchPaths \subseteq STRING
    /\ \A start \in Starts :
          /\ start.type \in {"raw", "helm", "kustomize"}
          /\ Fits(start.file) /\ IsKustomization(start.kustomization)
          /\ start.file.kind = "mapping" \/ (start.type = "kustomize" /\ start.file = NoFile)

-----------------------------------------------------------------------------
(* raw.go: what all writers share. *)

\* Mutant of updateScalarValue: a new node is made of a null.
updateScalarValueOfNull(section, key, text) ==
    [(IF key \in Keys(section) THEN section.at[key] ELSE Null) EXCEPT !.value = text]

\* The text of a scalar that is there is replaced and its tag is not.
updateScalarValue(section, key, text) ==
    IF key \in Keys(section) THEN [section.at[key] EXCEPT !.value = text] ELSE Scalar(text)

\* Mutant of updateResourceSection: the section is written anew.
updateResourceSectionAnew(section, values) ==
    Mapping([r \in DOMAIN values |-> Scalar(values[r])])

updateResourceSection(section, values) ==
    IF section.kind # "mapping" THEN section
    ELSE Mapping([r \in Keys(section) \cup DOMAIN values |->
                    IF r \in DOMAIN values THEN updateScalarValue(section, r, values[r])
                                           ELSE section.at[r]])

\* The resources with the sections of an update, requests and limits.
WithSections(resources, update) ==
    IF resources.kind # "mapping" THEN resources
    ELSE Mapping([s \in Keys(resources) \cup DOMAIN update.sections |->
                    IF s \in DOMAIN update.sections
                    THEN updateResourceSection(FindOrCreate(resources, s), update.sections[s])
                    ELSE resources.at[s]])

\* The tree in which the resources at a path have the sections of an update.
UpdatedAt(root, path, update) ==
    LET way == Way(root, path)
        new[i \in 0 .. Len(path)] ==
            IF i = Len(path) THEN WithSections(way[i], update)
                             ELSE Put(way[i], path[i + 1], new[i + 1])
    IN  new[0]

\* The tree after the updates, each at the path that it is given, if any.
UpdatedAll(root, updates, pathOf) ==
    LET after[i \in 0 .. Len(updates)] ==
            IF i = 0 THEN root
            ELSE IF updates[i].name \in DOMAIN pathOf
            THEN UpdatedAt(after[i - 1], pathOf[updates[i].name], updates[i])
            ELSE after[i - 1]
    IN  after

Names(updates) == {updates[i].name : i \in 1 .. Len(updates)}

\* Mutant of ContainerPaths: the key resources is forgotten.
ContainerPathsShort(updates) == [c \in Names(updates) |-> <<c>>]

\* The resources of the containers of a manifest or a patch.
ContainerPaths(updates) == [c \in Names(updates) |-> <<c, "resources">>]

-----------------------------------------------------------------------------
(* The calls: the set of files they may return, empty when they return an error. *)

\* RawWriter.UpdateManifest: every container must be there.
UpdatedManifest(root, updates) ==
    IF Names(updates) \subseteq Keys(root)
    THEN {UpdatedAll(root, updates, ContainerPaths(updates))[Len(updates)]} ELSE {}

\* HelmWriter.UpdateValues: the parents must be there, and the first update counts.
UpdatedValues(root, updates, path) ==
    LET first == IF updates = <<>> THEN [sections |-> <<>>] ELSE updates[1]
    IN  IF Exists(root, SubSeq(path, 1, Len(path) - 1)) THEN {UpdatedAt(root, path, first)} ELSE {}

\* HelmWriter.UpdateValuesMultiContainer: updateAtPath wants mappings on its way.
UpdatedContainers(root, updates, pathOf) ==
    LET after == UpdatedAll(root, updates, pathOf)
    IN  IF \A i \in 1 .. Len(updates) :
              updates[i].name \in DOMAIN pathOf =>
                  LET path == pathOf[updates[i].name]
                  IN  \A j \in 1 .. Len(path) : Way(after[i - 1], path)[j].kind = "mapping"
        THEN {after[Len(updates)]} ELSE {}

\* HelmWriter.DetectHelmStructure: containers are called after the key above their
\* resources; of two blocks with one name the one further down in the file counts.
Detected(root) ==
    LET Found == {p \in Places \ {<<>>} :
                     /\ p[Len(p)] = "resources"
                     /\ Exists(root, p) /\ NodeAt(root, p).kind = "mapping"}
        NameOf(p) == IF Len(p) = 1 THEN "main" ELSE p[Len(p) - 1]
    IN  {m \in [{NameOf(p) : p \in Found} -> Found] : \A c \in DOMAIN m : NameOf(m[c]) = c}

\* The sections of the update for a container.
SectionsOf(updates, c) ==
    updates[CHOOSE i \in 1 .. Len(updates) : updates[i].name = c].sections

\* A string of Go: what looks like a number is put into quotes.
Quoted(text) == [kind |-> "scalar", value |-> text, tag |-> "str"]

\* KustomizeWriter.GeneratePatch: sections without values are omitted, and so is the
\* list of containers when there are none.
GeneratedPatch(updates) ==
    LET Filled(sections) == {s \in DOMAIN sections : DOMAIN sections[s] # {}}
        Section(values)  == Mapping([r \in DOMAIN values |-> Quoted(values[r])])
        Patch(sections)  == Mapping([s \in Filled(sections) |-> Section(sections[s])])
    IN  IF updates = <<>> THEN NoContainers
        ELSE Mapping([c \in Names(updates) |->
                        Mapping([k \in {"resources"} |-> Patch(SectionsOf(updates, c))])])

\* KustomizeWriter.UpdatePatch: a patch must have containers, and those that are
\* not there are added.
UpdatedPatch(root, updates) ==
    IF root.kind = "mapping"
    THEN {UpdatedAll(root, updates, ContainerPaths(updates))[Len(updates)]} ELSE {}

\* The older key is only looked for when the other is not there.
PatchesKey(root) ==
    IF "patches" \notin Keys(root) /\ "patchesStrategicMerge" \in Keys(root)
    THEN "patchesStrategicMerge" ELSE "patches"

\* KustomizeWriter.UpdateKustomization: the encoder writes no children of a null.
WithEntry(root, path) ==
    LET key     == PatchesKey(root)
        patches == IF key \in Keys(root) THEN root.at[key] ELSE Listing(<<>>)
    IN  IF patches = Null \/ \E i \in DOMAIN patches.paths : patches.paths[i] = path
        THEN root ELSE Put(root, key, Listing(Append(patches.paths, path)))

-----------------------------------------------------------------------------
(* Whoever makes a Cut; nothing in the repository does yet. *)

\* The quantities of updates by the places where pathOf puts them.
Asking(updates, pathOf) ==
    LET given == {x \in (1 .. Len(updates)) \X Sections \X Resources :
                    LET u == updates[x[1]]
                    IN  /\ u.name \in DOMAIN pathOf
                        /\ x[2] \in DOMAIN u.sections /\ x[3] \in DOMAIN u.sections[x[2]]}
        Place(x) == pathOf[updates[x[1]].name] \o <<x[2], x[3]>>
        AtPlace(p) == CHOOSE x \in given : Place(x) = p
    IN  [p \in {Place(x) : x \in given} |->
            LET x == AtPlace(p) IN updates[x[1]].sections[x[2]][x[3]]]

\* The functions together; where both are defined the first counts.
Over(f, g) == [p \in DOMAIN f \cup DOMAIN g |-> IF p \in DOMAIN f THEN f[p] ELSE g[p]]

\* One of the files that a call returns is written.
Writes(files, asking, tagged) ==
    /\ file' \in files
    /\ asked' = Over(asking, asked) /\ tags' = Over(tags, tagged)
    /\ UNCHANGED <<type, kustomization>>

\* The tags of new scalars in a tree, and in a patch of strings.
Plain(asking)   == [p \in DOMAIN asking |-> TagOf(asking[p])]
Strings(asking) == [p \in DOMAIN asking |-> "str"]

UpdateManifest ==
    /\ type = "raw"
    /\ \E us \in Updates :
          LET asking == Asking(us, ContainerPaths(us))
          IN  Writes(UpdatedManifest(file, us), asking, Plain(asking))

UpdateValues ==
    /\ type = "helm"
    /\ \E us \in Updates, path \in ValuePaths :
          LET asking == Asking(us, [c \in {us[1].name : i \in DOMAIN us} |-> path])
          IN  Writes(UpdatedValues(file, us, path), asking, Plain(asking))

UpdateValuesMultiContainer ==
    /\ type = "helm"
    /\ \E us \in Updates : \E pathOf \in PathMaps \cup Detected(file) :
          LET asking == Asking(us, pathOf)
          IN  Writes(UpdatedContainers(file, us, pathOf), asking, Plain(asking))

GeneratePatch ==
    /\ type = "kustomize" /\ file \in {NoFile, NoContainers}
    /\ \E us \in Updates :
          LET asking == Asking(us, ContainerPaths(us))
          IN  Writes({GeneratedPatch(us)}, asking, Strings(asking))

UpdatePatch ==
    /\ type = "kustomize"
    /\ \E us \in Updates :
          LET asking == Asking(us, ContainerPaths(us))
          IN  Writes(UpdatedPatch(file, us), asking, Plain(asking))

UpdateKustomization ==
    /\ type = "kustomize"
    /\ \E path \in PatchPaths : kustomization' = WithEntry(kustomization, path)
    /\ UNCHANGED <<type, file, asked, tags>>

-----------------------------------------------------------------------------
Init ==
    /\ \E start \in Starts :
          /\ type = start.type /\ file = start.file /\ kustomization = start.kustomization
          /\ tags = [p \in {q \in Leaves : Exists(start.file, q)} |->
                       NodeAt(start.file, p).tag]
    /\ asked = <<>>

Next ==
    \/ UpdateManifest
    \/ UpdateValues
    \/ UpdateValuesMultiContainer
    \/ GeneratePatch
    \/ UpdatePatch
    \/ UpdateKustomization

Spec == Init /\ [][Next]_vars

-----------------------------------------------------------------------------
(* Properties. *)

\* The calls grow files only where resources belong: whatever is in a file is on
\* the way to a scalar that a file of its kind may hold.
TypeOK ==
    /\ type \in {"raw", "helm", "kustomize"}
    /\ Fits(file)
    /\ IsKustomization(kustomization)
    /\ DOMAIN asked \subseteq Leaves /\ DOMAIN tags \subseteq Leaves
    /\ \A p \in DOMAIN asked : asked[p] \in Quantities

\* Mappings lead to the place.
Reached(p) == \A i \in 1 .. Len(p) - 1 : Way(file, p)[i].kind = "mapping"

\* What was last asked for at a place is what a reader gets there.
ReadAsAsked(p) == Exists(file, p) /\ Reads(NodeAt(file, p)) = asked[p]

\* A place reads as what the last call asked for it, whatever calls for this or
\* other containers came before and after and whichever writer made the place --
\* unless the first scalar there was a null, or a number while the quantity is
\* none, as updateScalarValue keeps its tag.
AskedIsRead ==
    \A p \in DOMAIN asked :
        Reached(p) /\ tags[p] \in {"str", TagOf(asked[p])} => ReadAsAsked(p)

\* A call changes no scalar but those it was asked to change: not the image, not
\* the other section, not what belongs to another container.
OthersKept ==
    [][\A p \in Leaves :
          /\ Exists(file, p)
          /\ p \in DOMAIN asked' => p \in DOMAIN asked /\ asked'[p] = asked[p]
          => Exists(file', p) /\ NodeAt(file', p) = NodeAt(file, p)]_vars
=============================================================================
