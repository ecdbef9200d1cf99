------------------------------ MODULE RuleFiles ------------------------------
(***************************************************************************)
(* How the tables of a ruleset come together from files                    *)
(* (core/ruleset/ruleset_base): which files of the given roots are read,   *)
(* in which order, and how objects of later files replace earlier ones.    *)
(*                                                                         *)
(* A root is a directory or not; a directory has, by name of subdirectory, *)
(* a set of files.  A file has a place in the order of paths (without      *)
(* extension), an extension, for YAML the nodes of its tree, and a         *)
(* message: the objects it holds by table.                                 *)
(***************************************************************************)
EXTENDS Naturals, Sequences, SequencesExt, FiniteSets, FiniteSetsExt, TLC

Directory == [
    improvements |-> "improvements", improvement_groups |-> "improvements",
    biomes |-> "biomes", biome_features |-> "biomes",
    resources |-> "resources",
    jobs |-> "jobs", job_groups |-> "jobs",
    atlas_rendering |-> "rendering",
    projects |-> "projects",
    variables |-> "variables",
    effects |-> "effects"]

TableNames == DOMAIN Directory

-----------------------------------------------------------------------------
(* Files.                                                                  *)

IsYamlFileExtension(file) == file.extension \in {"yaml", "yml"}
IsRulesetFileExtension(file) == file.extension = "txt" \/ IsYamlFileExtension(file)

NoKey == ""             \* of an entry of a mapping, when its key is no scalar
Unreadable == [t \in {} |-> <<>>]

\* A node of a YAML tree: its marks (anchor, alias, tag), its kind, and for each child
\* the key it has.
ValidateRymlNode(node) ==
    /\ node.marks = {}
    /\ node.kind = "stream" => Len(node.keys) <= 1
    /\ node.kind = "map" => NoKey \notin ToSet(node.keys) /\ IsInjective(node.keys)

\* Text and YAML files that cannot be read count as empty.
ReadFromFile(file) ==
    IF file.malformed \/ (IsYamlFileExtension(file) /\ \E node \in file.tree : ~ValidateRymlNode(node))
    THEN Unreadable ELSE file.message

\* The elements of a sequence at the places to keep.
Selected(seq, keep) ==
    LET selected[n \in 0 .. Len(seq)] ==
            IF n = 0 THEN <<>>
            ELSE IF n \in keep THEN Append(selected[n - 1], seq[n]) ELSE selected[n - 1]
    IN  selected[Len(seq)]

FilterValidRuleRoots(roots) == Selected(roots, {i \in DOMAIN roots : roots[i].directory})

\* In the order of their paths.  Files of one directory with one name and different
\* extensions are all left out.
RuleFilesOf(root, subdirectory) ==
    LET candidates == {file \in root.files[subdirectory] : IsRulesetFileExtension(file)}
        alone == {file \in candidates : \A other \in candidates :
                      other.path = file.path => other = file}
        Before(file) == {other \in alone : other.path < file.path}
    IN  [n \in 1 .. Cardinality(alone) |->
            CHOOSE file \in alone : Cardinality(Before(file)) = n - 1]

CollectRuleFiles(roots, subdirectory) ==
    FlattenSeq([i \in DOMAIN roots |-> RuleFilesOf(roots[i], subdirectory)])

-----------------------------------------------------------------------------
(* Merging.                                                                *)

\* Fault: what is there already stays.
KeepRepeatedField(target, object) ==
    IF \E i \in DOMAIN target : target[i].id = object.id
    THEN target ELSE Append(target, object)

\* In the place of the object with the same id, or at the end.
UpsertRepeatedField(target, object) ==
    LET same == {i \in DOMAIN target : target[i].id = object.id}
    IN  IF same = {} THEN Append(target, object)
        ELSE [target EXCEPT ![Min(same)] = object]

\* The objects a file has for a table.
Objects(file, table) ==
    LET message == ReadFromFile(file)
    IN  IF table \in DOMAIN message THEN message[table] ELSE <<>>

ApplyFile(target, file, table) ==
    LET objects == Objects(file, table)
        applied[n \in 0 .. Len(objects)] ==
            IF n = 0 THEN target ELSE UpsertRepeatedField(applied[n - 1], objects[n])
    IN  applied[Len(objects)]

LoadOrderedFilesInto(target, files, table) ==
    LET loaded[n \in 0 .. Len(files)] ==
            IF n = 0 THEN target ELSE ApplyFile(loaded[n - 1], files[n], table)
    IN  loaded[Len(files)]

NoObjects == [table \in TableNames |-> <<>>]

\* RuleSetBase::Clear, message by message.
ClearTables(tables) ==
    [tables EXCEPT
        !.biomes = <<>>, !.biome_features = <<>>,
        !.improvements = <<>>, !.improvement_groups = <<>>,
        !.resources = <<>>,
        !.atlas_rendering = <<>>,
        !.jobs = <<>>, !.job_groups = <<>>,
        !.projects = <<>>,
        !.variables = <<>>,
        !.effects = <<>>]

\* RuleSetBase::Load: the files of its directory go into what Clear leaves of every table.
LoadTables(tables, roots) ==
    LET cleared == ClearTables(tables)
    IN  [table \in TableNames |->
            LoadOrderedFilesInto(cleared[table],
                CollectRuleFiles(FilterValidRuleRoots(roots), Directory[table]), table)]
=============================================================================
