----------------------------- MODULE SkillStore -----------------------------
(***************************************************************************)
(* Skills: directories on disk, which are the skills, and the rows of the  *)
(* skills table, which hold the enabled flag and the id agents bind        *)
(* (services/skill_service.py, skill_files.py, api/skills.py).  Anybody    *)
(* may change the directories.  The text of a skill, its other files and   *)
(* the checks of an uploaded archive are left out: an import is one that   *)
(* passed them.                                                            *)
(***************************************************************************)
EXTENDS AgentReferences

CONSTANT Dirs      \* valid directory names

ASSUME SkillsAssumption == IsFiniteSet(Dirs)

VARIABLES
    dir,     \* per name, what SKILL.md is
    skill    \* skills: id -> [dir, enabled]

\* empty: missing or of size zero; blank: only white space, or not UTF-8, which
\* the scan accepts and the reader does not.
DirStates == {"absent", "empty", "blank", "good"}
CompliantStates == {"blank", "good"}
Compliant == {d \in Dirs : dir[d] \in CompliantStates}

RowOf(d) == {i \in DOMAIN skill : skill[i].dir = d}
WithoutRow(rows, dirs) == {d \in dirs : \A i \in DOMAIN rows : rows[i].dir # d}
\* New rows get consecutive keys, in any order of the directories found.
Orders(dirs) == Bijection(1 .. Cardinality(dirs), dirs)
AddRows(rows, dirs, nth) ==
    LET first == NextId(rows)
        new == first .. first + Cardinality(dirs) - 1
    IN  [i \in DOMAIN rows \cup new |->
            IF i \in new THEN [dir |-> nth[i - first + 1], enabled |-> TRUE] ELSE rows[i]]
Fits(rows, dirs) == Cardinality(dirs) + NextId(rows) - 1 <= scene.skill
Vanished(rows, dirs) == {i \in DOMAIN rows : rows[i].dir \notin dirs}

\* write_file on SKILL.md, update_skill, and whatever happens on the disk.
WriteSkillFile(d, content) ==
    /\ dir[d] # content
    /\ dir' = [dir EXCEPT ![d] = content]
    /\ UNCHANGED <<skill, req>>

\* _load_compliant: directories that had no row when it looked get one.
BeginListSkills(w) ==
    /\ WithoutRow(skill, Compliant) # {}
    /\ Begin(w, [op |-> "list_skills", add |-> WithoutRow(skill, Compliant)])
    /\ UNCHANGED <<dir, skill>>

ListSkillsAgain(w) ==                            \* mutant: rows added without a look
    /\ Serving(w, "list_skills") /\ Fits(skill, req[w].add)
    /\ \E nth \in Orders(req[w].add) : skill' = AddRows(skill, req[w].add, nth)
    /\ UNCHANGED dir
    /\ Respond(w)

\* uq_skills_dir_name refuses a second row of a directory, and with it all.
ListSkills(w) ==
    /\ Serving(w, "list_skills") /\ Fits(skill, req[w].add)
    /\ \E nth \in Orders(req[w].add) :
          skill' = IF WithoutRow(skill, req[w].add) = req[w].add
                   THEN AddRows(skill, req[w].add, nth) ELSE skill
    /\ UNCHANGED dir
    /\ Respond(w)

\* refresh: the rows of directories that are not compliant go one by one,
\* whoever refers to them; then it lists.
BeginRefresh(w) ==
    /\ Begin(w, [op |-> "refresh", drop |-> Vanished(skill, Compliant)])
    /\ UNCHANGED <<dir, skill>>

RefreshRow(w, i) ==
    /\ Serving(w, "refresh") /\ i \in req[w].drop
    /\ skill' = Drop(skill, {i})
    /\ req' = [req EXCEPT ![w] = [op |-> "refresh", drop |-> @.drop \ {i}]]
    /\ UNCHANGED dir

RefreshLists(w) ==
    /\ Serving(w, "refresh") /\ req[w].drop = {}
    /\ LET add == WithoutRow(skill, Compliant)
       IN  req' = [req EXCEPT ![w] =
                       IF add = {} THEN NoReq ELSE [op |-> "list_skills", add |-> add]]
    /\ UNCHANGED <<dir, skill>>

\* import_zip: the directory is moved to its place, then it refreshes.  (On the
\* event loop, but other requests are served in their threads meanwhile.)
ImportSkill(w, d) ==
    /\ dir[d] = "absent"
    /\ dir' = [dir EXCEPT ![d] = "good"]
    /\ Begin(w, [op |-> "refresh", drop |-> Vanished(skill, Compliant')])
    /\ UNCHANGED skill

\* set_enabled: _find looks for the row of a readable directory, adds it where
\* there is none, and commits; the flag is a second commit, of a value that
\* differs from what was read.
BeginSetSkillEnabled(w, d, flag) ==
    /\ dir[d] = "good"
    /\ \/ /\ RowOf(d) = {}
          /\ Begin(w, [op |-> "find_skill", dir |-> d, enabled |-> flag])
       \/ \E i \in RowOf(d) :
             Begin(w, [op |-> "enable_skill", id |-> i, enabled |-> flag,
                       was |-> skill[i].enabled])
    /\ UNCHANGED <<dir, skill>>

FindSkill(w) ==
    /\ Serving(w, "find_skill") /\ Fits(skill, {req[w].dir})
    /\ IF RowOf(req[w].dir) = {}
       THEN /\ skill' = AddRows(skill, {req[w].dir}, <<req[w].dir>>)
            /\ req' = [req EXCEPT ![w] = [op |-> "enable_skill", id |-> NextId(skill),
                                          enabled |-> @.enabled, was |-> TRUE]]
       ELSE Respond(w) /\ UNCHANGED skill
    /\ UNCHANGED dir

SetSkillEnabled(w) ==
    /\ Serving(w, "enable_skill")
    /\ LET r == req[w]
       IN  skill' = IF r.enabled # r.was /\ r.id \in DOMAIN skill
                    THEN [skill EXCEPT ![r.id].enabled = r.enabled] ELSE skill
    /\ UNCHANGED dir
    /\ Respond(w)

\* delete_skill: refused while an agent binds the row, then the directory goes.
BeginDeleteSkill(w, d) ==
    /\ dir[d] \in CompliantStates \/ RowOf(d) # {}
    /\ \A i \in RowOf(d) : ~ Referenced("skill", i)
    /\ Begin(w, [op |-> "delete_skill", dir |-> d, rows |-> RowOf(d)])
    /\ UNCHANGED <<dir, skill>>

\* Removing the directory may fail half-way; the row is then left alone.
RemoveSkillDir(w) ==
    /\ Serving(w, "delete_skill")
    /\ \/ /\ dir' = [dir EXCEPT ![req[w].dir] = "absent"]
          /\ req' = [req EXCEPT ![w] = [op |-> "delete_skill_row", rows |-> @.rows]]
       \/ /\ dir[req[w].dir] # "absent"
          /\ \E left \in {dir[req[w].dir], "empty"} :
                dir' = [dir EXCEPT ![req[w].dir] = left]
          /\ Respond(w)
    /\ UNCHANGED skill

DeleteSkillRow(w) ==
    /\ Serving(w, "delete_skill_row")
    /\ skill' = Drop(skill, req[w].rows)
    /\ UNCHANGED dir
    /\ Respond(w)

SkillStep(w) ==
    \/ BeginListSkills(w) \/ ListSkills(w)
    \/ BeginRefresh(w) \/ (\E i \in Ids : RefreshRow(w, i)) \/ RefreshLists(w)
    \/ \E d \in Dirs : \/ ImportSkill(w, d)
                       \/ BeginDeleteSkill(w, d)
                       \/ \E f \in BOOLEAN : BeginSetSkillEnabled(w, d, f)
    \/ FindSkill(w) \/ SetSkillEnabled(w)
    \/ RemoveSkillDir(w) \/ DeleteSkillRow(w)

DiskStep == \E d \in Dirs, c \in DirStates : WriteSkillFile(d, c)

=============================================================================
