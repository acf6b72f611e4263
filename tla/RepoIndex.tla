------------------------------ MODULE RepoIndex ------------------------------
(***************************************************************************)
(* The index of one repository (services/index-server): what the server   *)
(* parsed of the working tree, the links between references and            *)
(* definitions, and the refresh that follows the commits.  The server      *)
(* serves one call at a time; people and tools change the repository       *)
(* meanwhile, also while it is being parsed.                               *)
(*                                                                         *)
(* A text is a record of what the language adapters find in it:            *)
(*   defs   its definitions, each the names below the module               *)
(*   binds  import bindings: local name -> kind and target                 *)
(*   refs   its references: the chain as written, the class around it, is  *)
(*          it a call, the definition on whose line it stands, if any; and *)
(*          what it means, for the properties                              *)
(* A fully qualified name is a sequence of names.  git is external.        *)
(***************************************************************************)
EXTENDS Naturals, Sequences, FiniteSets, SequencesExt

CONSTANTS
  Paths,        \* the source files there may be
  SortedPaths,  \* the same, in sorted order
  Ignored,      \* those below a directory of IGNORED_DIR_NAMES
  Module,       \* Module[p]: module_dotted_path of p, a sequence of names
  Content,      \* Content[t]: what is found in text t
  Texts,        \* Texts[p]: the texts p may have
  First,        \* the repository at the start: path -> text or NoFile
  NoFile,
  MaxCommits,   \* bound: commits
  MaxEdits,     \* bound: edits that are not committed
  MaxFaults     \* bound: git commands that fail

VARIABLES
  hasGit,   \* is_git_repo(root)
  tree,     \* the working tree
  commits,  \* the commits, in order of their making
  head,     \* HEAD, an index into commits
  index,    \* the RepoIndex, and is it there yet
  op,       \* the build or refresh under way
  edits,    \* uncommitted edits so far
  faults,   \* failed git commands so far
  moved,    \* paths whose text changed since the operation began
  off,      \* paths parsed from a text that last_indexed_commit does not have
  torn      \* a refresh raised after it had replaced records

indexVars == <<hasGit, tree, commits, head, index, op, edits, faults, moved, off, torn>>

NoRecords == [p \in Paths |-> NoFile]
Indexed(records) == {p \in Paths : records[p] # NoFile}
NoIndex == [st |-> "none", records |-> NoRecords, links |-> {}, ranked |-> <<>>, commit |-> 0]
Idle == [pc |-> "idle", kind |-> "none", todo |-> {}, looked |-> {}, deleted |-> {},
         commit |-> 0]

Init ==
  /\ hasGit \in BOOLEAN /\ tree = First /\ commits = <<First>> /\ head = 1
  /\ index = NoIndex /\ op = Idle
  /\ edits = 0 /\ faults = 0 /\ moved = {} /\ off = {} /\ torn = FALSE

(***************************************************************************)
(* Linking (resolve.py).                                                   *)
(***************************************************************************)

\* build_definition_indices
Definitions(records) ==
  UNION {{Module[p] \o d : d \in Content[records[p]].defs} : p \in Indexed(records)}
Modules(records) == {Module[p] : p \in Indexed(records)}

\* resolve_chain: the first of the four readings of a chain that is a
\* definition; <<>> if none is.
ResolveChain(chain, context, p, records) ==
  LET bound == chain[1] \in DOMAIN Content[records[p]].binds
      own == IF chain[1] \in {"self", "cls"} /\ Len(chain) >= 2 /\ context # <<>>
             THEN <<Module[p] \o context \o <<chain[2]>>>> ELSE <<>>
      imported == IF bound /\ (Content[records[p]].binds[chain[1]].kind = "symbol" \/ Len(chain) > 1)
                  THEN <<Content[records[p]].binds[chain[1]].target \o Tail(chain)>> ELSE <<>>
      qualified == IF \E n \in 1..(Len(chain) - 1) : SubSeq(chain, 1, n) \in Modules(records)
                   THEN <<chain>> ELSE <<>>
      readings == own \o imported \o <<Module[p] \o chain>> \o qualified
      found == SelectSeq(readings, LAMBDA f : f \in Definitions(records))
  IN  IF found = <<>> THEN <<>> ELSE Head(found)

\* Variant: only the files that were parsed are linked again.
LinkParsedOnly(records, parsed, old) ==
  UNION {{[file |-> p, ref |-> r, fqn |-> ResolveChain(r.chain, r.context, p, records)]
            : r \in Content[records[p]].refs} : p \in Indexed(records) \cap parsed}
    \cup {l \in old : l.file \notin parsed}

\* link_references, over every file: by_fqn, by_name and calls_by_fqn are
\* three keys of this one set.
Link(records, parsed, old) ==
  UNION {{[file |-> p, ref |-> r, fqn |-> ResolveChain(r.chain, r.context, p, records)]
            : r \in Content[records[p]].refs} : p \in Indexed(records)}

(***************************************************************************)
(* Queries (repo_index.py).                                                *)
(***************************************************************************)

\* resolve_symbol_to_fqns without an origin: every definition of that name,
\* those that end in the whole symbol if there are any.
ByName(symbol, records) ==
  LET named == {f \in Definitions(records) : Last(f) = Last(symbol)}
      narrowed == {f \in named : IsSuffix(symbol, f)}
  IN  IF Len(symbol) > 1 /\ narrowed # {} THEN narrowed ELSE named

\* resolve_symbol_to_fqns: from an origin, with the class around it and then
\* without; otherwise by name.
ResolveSymbol(symbol, p, context, records) ==
  LET from == IF p \notin Indexed(records) THEN <<>>
              ELSE SelectSeq(<<ResolveChain(symbol, context, p, records),
                               ResolveChain(symbol, <<>>, p, records)>>,
                             LAMBDA f : f # <<>>)
  IN  IF from # <<>> THEN {Head(from)} ELSE ByName(symbol, records)

\* find_references: the links to the symbol, and those of its name that lead
\* nowhere else; not the ones on the line of its own definition.
FindReferences(symbol, p, context, records, links) ==
  LET fqns == ResolveSymbol(symbol, p, context, records)
      names == {Last(f) : f \in fqns} \cup {Last(symbol)}
      hit(l) == \/ l.fqn \in fqns
                \/ Last(l.ref.chain) \in names /\ l.fqn = <<>>
      onSite(l) == Module[l.file] \o l.ref.line \in fqns
  IN  IF fqns = {} THEN {} ELSE {l \in links : hit(l) /\ ~onSite(l)}

\* find_callers
FindCallers(symbol, p, context, records, links) ==
  {l \in links : l.ref.call /\ l.fqn \in ResolveSymbol(symbol, p, context, records)}

\* search: the ranking is built over the records when it is first needed.
Search ==
  /\ op.pc = "idle" /\ index.st = "ready" /\ index.ranked = <<>>
  /\ index' = [index EXCEPT !.ranked = <<index.records>>]
  /\ UNCHANGED <<tree, commits, head, op, edits, faults, moved, off, torn>>

(***************************************************************************)
(* Building and refreshing.                                                *)
(***************************************************************************)

\* discover_source_files
Discover == {p \in Paths : tree[p] # NoFile /\ p \notin Ignored}

\* The files to be parsed are taken in the order of their paths.
Before(p, q) ==
  \E i, j \in DOMAIN SortedPaths : i <= j /\ SortedPaths[i] = p /\ SortedPaths[j] = q
Earliest(todo) == {p \in todo : \A q \in todo : Before(p, q)}

GitFails == faults < MaxFaults /\ faults' = faults + 1
Without(records, gone) == [p \in Paths |-> IF p \in gone THEN NoFile ELSE records[p]]

\* build, of every file there is.
BuildAll(state) ==
  /\ index' = [index EXCEPT !.st = state, !.records = NoRecords]
  /\ op' = [Idle EXCEPT !.pc = "parse", !.kind = "build", !.todo = Discover,
                        !.looked = Paths]

\* _resolve_repo: the first call for the repository builds its index; the
\* server keeps it once the build has ended.
Build ==
  /\ op.pc = "idle" /\ index.st = "none"
  /\ BuildAll("building")
  /\ moved' = {}
  /\ UNCHANGED <<tree, commits, head, edits, faults, off, torn>>

\* refresh, up to the first file: without git, or when git fails, by hash;
\* without a commit a build; and nothing while HEAD is where it was.
Refresh ==
  /\ op.pc = "idle" /\ index.st = "ready"
  /\ moved' = {}
  /\ \/ /\ \/ ~hasGit /\ UNCHANGED faults
           \/ hasGit /\ GitFails
        /\ index' = [index EXCEPT !.records = Without(@, Paths \ Discover)]
        /\ op' = [Idle EXCEPT !.pc = "parse", !.kind = "hash", !.todo = Discover,
                              !.looked = Paths]
     \/ /\ hasGit /\ index.commit = 0
        /\ BuildAll("ready")
        /\ UNCHANGED faults
     \/ /\ hasGit /\ index.commit \notin {0, head}
        /\ op' = [Idle EXCEPT !.pc = "diff", !.kind = "diff", !.commit = head]
        /\ UNCHANGED <<index, faults>>
     \/ /\ hasGit /\ index.commit = head
        /\ UNCHANGED <<index, op, faults>>
  /\ UNCHANGED <<tree, commits, head, edits, off, torn>>

\* Variant: the old path of a rename is taken for unchanged.
DeletedNotRenamed ==
  {p \in Paths : /\ commits[index.commit][p] # NoFile /\ commits[head][p] = NoFile
                 /\ \A q \in Paths : commits[head][q] # commits[index.commit][p]}

\* changed_files_since: git diff --name-status with HEAD as it is by now.
Deleted == {p \in Paths : commits[index.commit][p] # NoFile /\ commits[head][p] = NoFile}
Changed == {p \in Paths : commits[head][p] \notin {NoFile, commits[index.commit][p]}}

\* GitUnavailable leaves the refresh.
Diff ==
  /\ op.pc = "diff"
  /\ \/ /\ op' = [op EXCEPT !.pc = "parse", !.looked = Changed \cup Deleted,
                 !.todo = Changed, !.deleted = Deleted]
        /\ UNCHANGED faults
     \/ GitFails /\ op' = Idle
  /\ UNCHANGED <<tree, commits, head, index, edits, moved, off, torn>>

\* One file: _parse_file.  By hash, a file that has not changed is not parsed,
\* which makes no difference to its record.  After a diff, a file that is not
\* there counts as deleted, unless it went between exists and read_text;
\* reading it then raises, as it does elsewhere, and an index being built is
\* dropped.
ParseFile(p) ==
  LET rest == [op EXCEPT !.todo = @ \ {p}]
  IN  /\ op.pc = "parse"
      /\ \/ /\ tree[p] # NoFile
            /\ index' = [index EXCEPT !.records[p] = tree[p]]
            /\ op' = rest
            /\ UNCHANGED <<off, torn>>
         \/ /\ tree[p] = NoFile /\ op.kind = "diff"
            /\ op' = [rest EXCEPT !.deleted = @ \cup {p}]
            /\ UNCHANGED <<index, off, torn>>
         \/ /\ tree[p] = NoFile /\ (op.kind = "diff" => p \in moved)
            /\ op' = Idle
            /\ IF index.st = "building"
               THEN index' = NoIndex /\ UNCHANGED <<off, torn>>
               ELSE off' = off \cup op.looked /\ torn' = TRUE /\ UNCHANGED index
      /\ UNCHANGED <<tree, commits, head, edits, faults, moved>>

Parse == \E p \in Earliest(op.todo) : ParseFile(p)

\* What the operation read of p is not what last_indexed_commit has: p was
\* changed meanwhile, or not committed, or git gave no commit to go by.
Dirty(p) == hasGit /\ tree[p] # commits[head][p]
Ahead(p) == op.kind = "hash" /\ hasGit /\ index.commit # 0
              /\ tree[p] # commits[index.commit][p]
OffAfter == (off \ op.looked) \cup moved \cup {p \in op.looked : Dirty(p) \/ Ahead(p)}

\* _relink, after the deleted files are dropped.
Relinked ==
  LET records == Without(index.records, op.deleted)
  IN  [index EXCEPT !.records = records, !.ranked = <<>>,
                    !.links = Link(records, op.looked, @)]

\* The end: after a diff the commit read at its beginning is remembered.
Relink ==
  /\ op.pc = "parse" /\ op.todo = {}
  /\ torn' = FALSE
  /\ IF op.kind = "build"
     THEN /\ index' = Relinked
          /\ op' = [op EXCEPT !.pc = "commit"]
          /\ UNCHANGED off
     ELSE /\ index' = IF op.kind = "diff" THEN [Relinked EXCEPT !.commit = op.commit]
                                          ELSE Relinked
          /\ op' = Idle
          /\ off' = OffAfter
  /\ UNCHANGED <<tree, commits, head, edits, faults, moved>>

\* build asks for the commit when the files have been read.
ReadCommit ==
  /\ op.pc = "commit"
  /\ \/ /\ index' = [index EXCEPT !.st = "ready", !.commit = IF hasGit THEN head ELSE 0]
        /\ UNCHANGED faults
     \/ /\ hasGit /\ GitFails
        /\ index' = [index EXCEPT !.st = "ready", !.commit = 0]
  /\ op' = Idle
  /\ off' = OffAfter
  /\ UNCHANGED <<tree, commits, head, edits, moved, torn>>

(***************************************************************************)
(* The repository, at any time.                                            *)
(***************************************************************************)

\* The text of every path is now as in t, after HEAD was set.
Becomes(t) ==
  LET touched == {p \in Paths : t[p] # tree[p] \/ commits'[head'][p] # commits[head][p]}
  IN  /\ tree' = t
      /\ moved' = IF op.pc = "idle" THEN moved ELSE moved \cup touched
      /\ off' = IF hasGit THEN off ELSE off \cup touched
      /\ UNCHANGED <<index, op, faults, torn>>

Committed(changes) ==
  /\ hasGit /\ Len(commits) < MaxCommits
  /\ commits' = Append(commits, [p \in Paths |->
                   IF p \in DOMAIN changes THEN changes[p] ELSE commits[head][p]])
  /\ head' = Len(commits) + 1
  /\ Becomes([p \in Paths |-> IF p \in DOMAIN changes THEN changes[p] ELSE tree[p]])
  /\ UNCHANGED edits

Commit(p, text) == text # commits[head][p] /\ Committed([q \in {p} |-> text])

Rename(p, q) ==
  /\ commits[head][p] \in Texts[q] /\ commits[head][q] = NoFile
  /\ Committed([x \in {p, q} |-> IF x = q THEN commits[head][p] ELSE NoFile])

\* An edit that is not committed; HEAD and the tree set to a commit.
Edit(p, text) ==
  /\ edits < MaxEdits /\ edits' = edits + 1
  /\ UNCHANGED <<commits, head>>
  /\ text # tree[p] /\ Becomes([tree EXCEPT ![p] = text])
Checkout(c) ==
  /\ hasGit /\ edits < MaxEdits /\ edits' = edits + 1
  /\ UNCHANGED commits /\ head' = c /\ Becomes(commits[c])

Change ==
  \/ Search \/ Build \/ Refresh \/ Diff \/ Parse \/ Relink \/ ReadCommit
  \/ \E p \in Paths, q \in Paths : Rename(p, q)
  \/ \E p \in Paths : \E text \in Texts[p] \cup {NoFile} : Commit(p, text) \/ Edit(p, text)
  \/ \E c \in DOMAIN commits : Checkout(c)

Next == Change /\ UNCHANGED hasGit
Spec == Init /\ [][Next]_indexVars

(***************************************************************************)
(* Properties.                                                             *)
(***************************************************************************)

Rests == index.st = "ready" /\ op.pc = "idle"
Sources == Paths \ (Ignored \cup off)

\* refresh, changed_files_since and _refresh_by_hash over any history of
\* commits, renames and resets: what the index knows of a file is what the
\* commit it was last brought up to has, although only the files the diff
\* names were parsed, unless the file was changed while it was read or read
\* uncommitted; without git it is what the directory has.  The ranking of
\* search is that of the same records (repo_index.py:106-176).
IndexIsFresh ==
  /\ Rests /\ hasGit /\ index.commit # 0 =>
       \A p \in Sources : index.records[p] = commits[index.commit][p]
  /\ Rests /\ ~hasGit => \A p \in Sources : index.records[p] = tree[p]
  /\ Rests /\ ~torn => index.ranked \in {<<>>, <<index.records>>}

Means(l) == IF l.ref.here THEN Module[l.file] \o l.ref.means ELSE l.ref.means

\* A reference by another name that its own file's import does not lead to a
\* definition: re-exported, and imported under an alias.
Hidden(l) == l.fqn = <<>> /\ Last(l.ref.chain) # Last(Means(l))

\* find_references over the links of the last refresh: every use, in any file
\* of the index, of a symbol that is defined is found from its qualified name
\* and from the place of its definition, the files that were not parsed again
\* included; and a link that was resolved leads to what is meant, so that
\* find_callers names only callers (repo_index.py:187-286, resolve.py:51-93).
\* Not found are aliases of a re-exported name and uses on the defining line.
ReferencesAreFound ==
  Rests /\ ~torn =>
    \A p \in Indexed(index.records) : \A r \in Content[index.records[p]].refs :
      \E l \in index.links :
        /\ l.file = p /\ l.ref = r
        /\ LET f == Means(l)
               site == CHOOSE q \in Indexed(index.records) : IsPrefix(Module[q], f)
               find(symbol, q) == FindReferences(symbol, q, <<>>, index.records, index.links)
               callers == FindCallers(f, "none", <<>>, index.records, index.links)
           IN  f \in Definitions(index.records) =>
                 /\ l.fqn \in {<<>>, f}
                 /\ Hidden(l) \/ Module[p] \o r.line = f \/
                      /\ l \in find(f, "none")
                      /\ l \in find(SubSeq(f, Len(Module[site]) + 1, Len(f)), site)
                 /\ r.call /\ l.fqn = f => l \in callers

(***************************************************************************)
(* The inductive invariant from which IndexIsFresh is proved.              *)
(***************************************************************************)
AllTexts == {NoFile} \cup {First[p] : p \in Paths} \cup UNION {Texts[p] : p \in Paths}

IsIndex(x) ==
  /\ x = [st |-> x.st, records |-> x.records, links |-> x.links, ranked |-> x.ranked,
          commit |-> x.commit]
  /\ x.st \in {"none", "building", "ready"} /\ x.records \in [Paths -> AllTexts]

OpType == [pc : {"idle", "diff", "parse", "commit"}, kind : {"none", "build", "hash", "diff"},
           todo : SUBSET Paths, looked : SUBSET Paths, deleted : SUBSET Paths, commit : Nat]

IndexTypeOK ==
  /\ hasGit \in BOOLEAN /\ torn \in BOOLEAN
  /\ tree \in [Paths -> AllTexts]
  /\ commits \in Seq([Paths -> AllTexts]) /\ head \in 1..Len(commits)
  /\ moved \subseteq Paths /\ off \subseteq Paths
  /\ IsIndex(index) /\ index.commit \in 0..Len(commits) /\ op \in OpType

\* What an operation under way is about.
OpOK ==
  /\ op.todo \subseteq op.looked /\ op.deleted \subseteq op.looked
  /\ op.pc = "idle" => op = Idle /\ index.st # "building"
  /\ op.pc = "diff" => op.kind = "diff" /\ op.looked = {}
  /\ op.pc = "parse" => op.kind # "none"
  /\ op.pc = "commit" => op.kind = "build" /\ op.todo = {}
  /\ op.kind \in {"build", "hash"} => op.looked = Paths /\ op.deleted = {}
  /\ op.kind = "hash" => index.st = "ready"
  /\ op.kind = "diff" =>
       /\ hasGit /\ index.st = "ready" /\ index.commit # 0
       /\ op.commit \in 1..Len(commits)

\* Between operations, and during a diff for the files it does not name, the
\* records are those of the commit; without git, those of the directory.
RecordsOK ==
  /\ (hasGit /\ index.st = "ready" /\ index.commit # 0 /\ op.kind \in {"none", "diff"}) =>
       \A p \in Sources \ op.looked : index.records[p] = commits[index.commit][p]
  /\ (~hasGit /\ index.st = "ready" /\ op.pc = "idle") =>
       \A p \in Sources : index.records[p] = tree[p]

\* What an operation has read and nobody has touched since it began.
ReadOK ==
  /\ op.pc \in {"parse", "commit"} =>
       \A p \in op.looked \ (moved \cup Ignored \cup op.deleted \cup op.todo) :
         index.records[p] = tree[p]
  /\ \A p \in op.deleted \ moved : tree[p] = NoFile \/ commits[head][p] = NoFile
  /\ op.kind = "diff" =>
       \A p \in Paths \ moved :
         /\ commits[head][p] = commits[op.commit][p]
         /\ op.pc = "parse" /\ p \notin op.looked =>
              commits[index.commit][p] = commits[op.commit][p]

\* The ranking and the links are those of the records.
DerivedOK ==
  /\ (index.st = "ready" /\ ~torn /\ op.pc \in {"idle", "diff"}) =>
       /\ index.ranked \in {<<>>, <<index.records>>}
       /\ index.links = Link(index.records, {}, {})
  /\ op.pc = "commit" =>
       index.ranked = <<>> /\ index.links = Link(index.records, {}, {})

IndexInv == IndexTypeOK /\ OpOK /\ RecordsOK /\ ReadOK /\ DerivedOK

\* _relink: the links are those of all the records, whatever files were
\* parsed, so what find_references says depends on the records alone.
LinksFollowRecords == Rests /\ ~torn => index.links = Link(index.records, {}, {})
=============================================================================
