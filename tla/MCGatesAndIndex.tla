---------------------------- MODULE MCGatesAndIndex ----------------------------
(***************************************************************************)
(* Two services that share no state, a person's gates (Gates) and the      *)
(* repository index an agent asks (RepoIndex), in one run: `part' chooses  *)
(* the one that runs, so their product adds no behaviour.                  *)
(*                                                                         *)
(* Gates: one plan approval whose run the developer triggered, one change  *)
(* review that the lead triggered.  RepoIndex: a library a, a file b that  *)
(* may take over its contents, c, which uses one or the other, and x in an *)
(* ignored directory; three commits, so that a refresh can follow a change *)
(* that landed while the one before it ran.                                *)
(***************************************************************************)
EXTENDS Gates, TLC

CONSTANTS
  plan, change, dev, lead, boss, f1, f2,
  Paths, SortedPaths, Ignored, Module, Content, Texts, First, NoFile,
  MaxCommits, MaxEdits, MaxFaults

VARIABLES
  part,
  hasGit, tree, commits, head, index, op, edits, faults, moved, off, torn

index_vars == <<hasGit, tree, commits, head, index, op, edits, faults, moved, off, torn>>

R == INSTANCE RepoIndex

MCKindOf == plan :> "plan_approval" @@ change :> "change_review"
MCTriggeredBy == plan :> dev @@ change :> lead
MCAssignees == plan :> {dev, lead} @@ change :> {dev}
MCSla == plan :> 1 @@ change :> 0
MCOwners == f1 :> {dev, lead, boss} @@ f2 :> {dev, boss}
Symmetry == Permutations(Threads)

\* A reference of a text: as written, in which class, a call or not; what it
\* means, in this module or by its whole name.
Here(chain, context, call, means) ==
  [chain |-> chain, context |-> context, call |-> call, line |-> <<"-">>,
   here |-> TRUE, means |-> means]
There(chain, call, means) ==
  [chain |-> chain, context |-> <<>>, call |-> call, line |-> <<"-">>,
   here |-> FALSE, means |-> means]
Symbol(target) == [kind |-> "symbol", target |-> target]

\* lib: a function f, a class K with a method m that calls itself and reads f.
\* lib2: only f, called on the line that defines it.
\* user: from a import f; f(), a.K.m and a call of m on a local variable.
\* alias: from b import f as h; import b; h(), b.f().
MCContent ==
  "lib" :> [defs |-> {<<"f">>, <<"K">>, <<"K", "m">>}, binds |-> <<>>,
            refs |-> {Here(<<"self", "m">>, <<"K">>, TRUE, <<"K", "m">>),
                      Here(<<"f">>, <<"K">>, FALSE, <<"f">>)}]
  @@ "lib2" :> [defs |-> {<<"f">>}, binds |-> <<>>,
                refs |-> {[Here(<<"f">>, <<>>, TRUE, <<"f">>) EXCEPT !.line = <<"f">>]}]
  @@ "user" :> [defs |-> {<<"g">>}, binds |-> "f" :> Symbol(<<"a", "f">>),
                refs |-> {There(<<"f">>, TRUE, <<"a", "f">>),
                          There(<<"a", "K", "m">>, FALSE, <<"a", "K", "m">>),
                          There(<<"k", "m">>, TRUE, <<"a", "K", "m">>)}]
  @@ "alias" :> [defs |-> {}, binds |-> "h" :> Symbol(<<"b", "f">>)
                                          @@ "b" :> [kind |-> "module", target |-> <<"b">>],
                 refs |-> {There(<<"h">>, TRUE, <<"b", "f">>),
                           There(<<"b", "f">>, TRUE, <<"b", "f">>)}]
MCSortedPaths == <<"a", "b", "c", "x">>
MCModule == [p \in {"a", "b", "c", "x"} |-> <<p>>]
MCTexts == [p \in {"a", "b", "c", "x"} |->
              CASE p = "a" -> {"lib", "lib2"} [] p = "b" -> {"lib"}
                [] p = "c" -> {"user", "alias"} [] p = "x" -> {"lib2"}]
MCFirst == [p \in {"a", "b", "c", "x"} |->
              IF p = "a" THEN "lib" ELSE IF p = "c" THEN "user" ELSE NoFile]

BothInit == Init /\ R!Init /\ part \in {"gates", "index"} /\ (part = "gates" => ~hasGit)

BothNext ==
  \/ part = "gates" /\ Next /\ UNCHANGED <<part, index_vars>>
  \/ part = "index" /\ R!Next /\ UNCHANGED <<part, vars>>

BothSpec == BothInit /\ [][BothNext]_<<part, vars, index_vars>>

(***************************************************************************)
(* Properties.                                                             *)
(***************************************************************************)

\* RepoIndex.refresh: what the index knows of a file is what the commit it
\* was last brought up to has, although only the files the diff names were
\* parsed (RepoIndex!IndexIsFresh).
IndexIsFresh == R!IndexIsFresh

\* find_references is exhaustive after a refresh that parsed only some of the
\* files, and find_callers names only callers (RepoIndex!ReferencesAreFound).
ReferencesAreFound == R!ReferencesAreFound
=============================================================================
