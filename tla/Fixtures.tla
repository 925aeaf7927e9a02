------------------------------ MODULE Fixtures ------------------------------
(* formal/tools/generated-fixtures.mjs: committed fixtures are exported from the *)
(* Quint models by recipes, locked by the hashes of their inputs and of their    *)
(* bytes, and verified without Quint.  An invocation may be cancelled between    *)
(* any two steps and inside a write, and the tree edited while it runs.          *)
EXTENDS Naturals, Sequences, SequencesExt

CONSTANTS Artifacts,    \* the fixture files, in recipe order
          Uses,         \* the models of each artifact's recipes
          Imports,      \* the libraries each model reaches
          Named,        \* models exported by a named run, not by an action history
          Nothing,      \* an absent or torn file, an absent export or mode
          MaxRuns,      \* bound on invocations
          MaxEdits      \* bound on edits

Files == ToSet(Artifacts)
Models == UNION {Uses[a] : a \in Files}
\* "recipes" stands for the recipe book, the generator and its encoder.
Sources == {"recipes"} \cup Models \cup UNION {Imports[m] : m \in Models}

VARIABLES tree,         \* version of each source
          file, lock,   \* the fixtures and generated-fixtures.lock.json
          mode, stage,  \* of the current invocation
          book,         \* version of the recipes it read
          export,       \* what each model's histories are made from
          output,       \* the files left to write or compare
          runs, edits,
          quiet,        \* history: no edit since the invocation began
          verified      \* history: mode of the last invocation, if it verified the tree
fixtureVars == <<tree, file, lock, mode, stage, book, export, output, runs, edits,
                 quiet, verified>>

Reaches(m) == {"recipes", m} \cup Imports[m]
Exports(t) == [m \in Models |-> [s \in Reaches(m) |-> t[s]]]
Content(a, ex) == [m \in Uses[a] |-> ex[m]]
Outputs(ex) == [a \in Files |-> Content(a, ex)]
Unexported == [m \in Models |-> Nothing]

\* Hashes of the models alone, without importClosure.
inputs_Direct(t) == [s \in {"recipes"} \cup Models |-> t[s]]

\* The recipes and every Quint source a recipe model reaches through its imports.
inputs(t) == [s \in Sources |-> t[s]]

\* A committed generation.
Init ==
    /\ tree = [s \in Sources |-> 0]
    /\ file = Outputs(Exports(tree))
    /\ lock = [inputs |-> inputs(tree), artifacts |-> file, quiet |-> TRUE]
    /\ mode = Nothing /\ stage = "idle" /\ book = 0
    /\ export = Unexported /\ output = <<>>
    /\ runs = 0 /\ edits = 0 /\ quiet = TRUE /\ verified = Nothing

-----------------------------------------------------------------------------

verifyFixtures == lock # Nothing /\ lock.inputs = inputs(tree) /\ lock.artifacts = file

\* The invocation returns, or throws.
Ends(result) ==
    /\ stage' = "idle" /\ mode' = Nothing /\ verified' = result
    /\ export' = Unexported /\ output' = <<>>

\* --verify reads only; --check and --write export first.
generateFixtures(m) ==
    /\ stage = "idle" /\ runs < MaxRuns
    /\ runs' = runs + 1 /\ book' = tree["recipes"] /\ quiet' = TRUE
    /\ IF m = "verify" THEN Ends(IF verifyFixtures THEN m ELSE Nothing)
       ELSE /\ stage' = "export" /\ mode' = m /\ verified' = Nothing
            /\ UNCHANGED <<export, output>>
    /\ UNCHANGED <<tree, file, lock, edits>>

\* exportModel, one task of the pool for each model: the text is read and parsed ...
readModel(m) ==
    /\ stage = "export" /\ export[m] = Nothing
    /\ export' = [export EXCEPT ![m] = [s \in {m} |-> tree[m]]]
    /\ UNCHANGED <<tree, file, lock, mode, stage, book, output, runs, edits, quiet,
                   verified>>

\* ... then the sources are copied and run: a named run reads the copied model, an
\* action history is spliced into the text read before.
copySources(m) ==
    /\ stage = "export" /\ export[m] # Nothing /\ DOMAIN export[m] = {m}
    /\ export' = [export EXCEPT ![m] = [s \in Reaches(m) |->
           CASE s = "recipes" -> book
             [] s = m /\ m \notin Named -> export[m][m]
             [] OTHER -> tree[s]]]
    /\ UNCHANGED <<tree, file, lock, mode, stage, book, output, runs, edits, quiet,
                   verified>>

\* A failed parse or run, a missing action or an incomplete history.
exportFails ==
    /\ stage = "export" /\ Ends(Nothing)
    /\ UNCHANGED <<tree, file, lock, book, runs, edits, quiet>>

\* The artifacts in recipe order, then the lock over the inputs as they are now.
assemble ==
    /\ stage = "export"
    /\ \A m \in Models : export[m] # Nothing /\ DOMAIN export[m] = Reaches(m)
    /\ stage' = "files"
    /\ output' = Append([k \in DOMAIN Artifacts |->
                            <<Artifacts[k], Content(Artifacts[k], export)>>],
                        <<"lock", [inputs |-> inputs(tree), artifacts |-> Outputs(export),
                                   quiet |-> quiet]>>)
    /\ UNCHANGED <<tree, file, lock, mode, book, export, runs, edits, quiet, verified>>

Replaces(path, bytes) ==
    IF path = "lock" THEN lock' = bytes /\ UNCHANGED file
    ELSE file' = [file EXCEPT ![path] = bytes] /\ UNCHANGED lock

\* Does the file on disk hold these bytes?
Holds(path, bytes) ==
    IF path = "lock"
    THEN /\ lock # Nothing
         /\ lock.inputs = bytes.inputs /\ lock.artifacts = bytes.artifacts
    ELSE file[path] = bytes

\* --write replaces the next file.
writeFile ==
    /\ stage = "files" /\ mode = "write" /\ output # <<>>
    /\ Replaces(Head(output)[1], Head(output)[2])
    /\ output' = Tail(output)
    /\ UNCHANGED <<tree, mode, stage, book, export, runs, edits, quiet, verified>>

\* --check requires the next file to be what Quint gave.
checkFile ==
    /\ stage = "files" /\ mode = "check" /\ output # <<>>
    /\ IF Holds(Head(output)[1], Head(output)[2])
       THEN output' = Tail(output) /\ UNCHANGED <<mode, stage, export, verified>>
       ELSE Ends(Nothing)
    /\ UNCHANGED <<tree, file, lock, book, runs, edits, quiet>>

finish ==
    /\ stage = "files" /\ output = <<>>
    /\ Ends(IF verifyFixtures THEN mode ELSE Nothing)
    /\ UNCHANGED <<tree, file, lock, book, runs, edits, quiet>>

\* The process is killed where it is, perhaps inside a write.
Cancel ==
    /\ stage # "idle" /\ Ends(Nothing)
    /\ \/ UNCHANGED <<file, lock>>
       \/ /\ stage = "files" /\ mode = "write" /\ output # <<>>
          /\ Replaces(Head(output)[1], Nothing)
    /\ UNCHANGED <<tree, book, runs, edits, quiet>>

\* A source is edited, or its edit reverted.
Edit(s) ==
    /\ edits < MaxEdits
    /\ edits' = edits + 1 /\ quiet' = FALSE /\ verified' = Nothing
    /\ tree' = [tree EXCEPT ![s] = 1 - @]
    /\ UNCHANGED <<file, lock, mode, stage, book, export, output, runs>>

Next ==
    \/ \E m \in {"verify", "check", "write"} : generateFixtures(m)
    \/ \E m \in Models : readModel(m) \/ copySources(m)
    \/ exportFails \/ assemble \/ writeFile \/ checkFile \/ finish \/ Cancel
    \/ \E s \in Sources : Edit(s)

-----------------------------------------------------------------------------

\* Fixtures that verify are whole, and are what the tree's recipes and models
\* give, whatever was cancelled between two writes and whichever source or import
\* was edited since.  The exception is a lock written by an invocation during which
\* the tree was edited (its inputs are hashed after the export that read them):
\* there only an undisturbed --check or --write settles it.
VerifiedFixturesAreGenerated ==
    verified # Nothing =>
       /\ \A a \in Files : file[a] # Nothing
       /\ lock.quiet \/ (verified # "verify" /\ quiet) => file = Outputs(Exports(tree))
=============================================================================
