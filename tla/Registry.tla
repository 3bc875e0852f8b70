------------------------------ MODULE Registry ------------------------------
(***************************************************************************)
(* load_yaml_documents, ToolRegistry and ProfileRegistry: what becomes of  *)
(* a directory of YAML files. Either every document is valid and each is   *)
(* in the registry, or there is no registry and the command ends.          *)
(*                                                                         *)
(* A file is kept as far as the checks tell files apart: yaml is "broken", *)
(* "empty", "scalar" (anything but a mapping) or "mapping". The fields a   *)
(* tool is planned with are kept one by one; whether all others have their *)
(* types (names, verification, families, architectures, risk) is one flag. *)
(***************************************************************************)
EXTENDS Sequences, SequencesExt, Versions, Catalog

BadId == "Not An Id"         \* what _ID_PATTERN does not match, or no text at all
KnownStrategy == Native \cup Secondary

\* A version in YAML: in quotes it is a text, 3.11 without them is a number.
\* Quoted(None) stands for none.
Quoted(version) == [text |-> TRUE, version |-> version]
Unquoted(version) == [text |-> FALSE, version |-> version]

\* _optional_str: None for whatever is not a text.
OptionalStr(value) == IF value.text THEN value.version ELSE None

\* load_yaml_documents: the files it returns, unless one of them is no mapping
\* or cannot be parsed; an empty file is skipped.
Documents(files) == {i \in DOMAIN files : files[i].yaml = "mapping"}
Readable(files) == \A i \in DOMAIN files : files[i].yaml \notin {"broken", "scalar"}

NoDuplicates(files) ==
  \A i, j \in Documents(files) : files[i].id = files[j].id => i = j

\* That and the constructor of a registry: [loaded |-> FALSE] is a
\* RegistryError, with which every command that asks for it exits 2.
Load(files, Valid(_), Parsed(_)) ==
  LET documents == Documents(files)
      entry(id) == files[CHOOSE i \in documents : files[i].id = id]
  IN IF /\ Readable(files)
        /\ \A i \in documents : files[i].id # BadId /\ Valid(files[i])
        /\ NoDuplicates(files)
     THEN [loaded |-> TRUE,
           entries |-> [id \in {files[i].id : i \in documents} |-> Parsed(entry(id))]]
     ELSE [loaded |-> FALSE, entries |-> << >>]

\* Names with an underscore are plausible mistakes in the definition that
\* follows them; they show that a property can fail and are used nowhere.

ValidMappings_AnySubset(d) ==
  \A s \in DOMAIN d.mappings : s \in KnownStrategy /\ d.mappings[s] # "blank"

\* _parse_package_mappings: known strategies, each with a package that is not
\* blank, and one for every strategy that is declared.
ValidMappings(d) ==
  /\ \A s \in DOMAIN d.mappings : s \in KnownStrategy /\ d.mappings[s] # "blank"
  /\ ToSet(d.strategies) \subseteq DOMAIN d.mappings

\* parse_tool_definition.
ValidTool(d) ==
  /\ d.strategies # << >> /\ ToSet(d.strategies) \subseteq KnownStrategy
  /\ ValidMappings(d)
  /\ d.othersValid

ParsedTool(d) ==
  [strategies |-> d.strategies, mappings |-> d.mappings,
   minimum |-> OptionalStr(d.minimum), recommended |-> OptionalStr(d.recommended)]

ToolRegistry(files) == Load(files, ValidTool, ParsedTool)

\* parse_profile_definition: it does not ask whether the tools exist.
ValidProfile(d) == d.tools # << >> /\ d.othersValid

ProfileRegistry(files) == Load(files, ValidProfile, LAMBDA d : d.tools)
=============================================================================
