------------------------------ MODULE Templates ------------------------------
(***************************************************************************)
(* One mail template and its history (src/src/routes/templates/index.ts).  *)
(* A change reads the template, counts its versions, saves what it read as *)
(* a version in a transaction that nobody awaits, and overwrites the       *)
(* template; a restore does the same with an older version's content.      *)
(***************************************************************************)
EXTENDS Integers, FiniteSets

CONSTANTS
    Editors,        \* requests at a time
    MaxTemplateActs \* bound: changes, restores, deletions and failures

ASSUME TemplatesAssumption == MaxTemplateActs \in Nat

VARIABLES
    template,   \* its content: the number of the change it came from, 0 when it is deleted
    versions,   \* the saved versions
    saving,     \* the saves under way
    edit,       \* per request: where it is, what it read, what it writes
    editLog     \* steps spent; contents there were; those whose save failed; those nobody read

templateVars == <<template, versions, saving, edit, editLog>>

NoEdit == [pc |-> "idle", id |-> 0, old |-> 0, new |-> 0]
TemplatesInit ==
    /\ template = 1 /\ versions = {} /\ saving = {} /\ edit = [e \in Editors |-> NoEdit]
    /\ editLog = [acts |-> 0, contents |-> {1}, unsaved |-> {}, unread |-> {}]

EditSpend(log) == editLog.acts < MaxTemplateActs /\ editLog' = [log EXCEPT !.acts = @ + 1]
Editing(e, new) == edit' = [edit EXCEPT ![e] = new]
ReadsTemplate(e, content) ==
    /\ edit[e].pc = "idle" /\ template # 0
    /\ Editing(e, [pc |-> "count", id |-> editLog.acts + 1, old |-> template, new |-> content])
    /\ EditSpend(editLog) /\ UNCHANGED <<template, versions, saving>>

------------------------------------------------------------------------------
\* PATCH brings a content of its own, restore an older one.
PatchTemplate(e)  == ReadsTemplate(e, editLog.acts + 2)
RestoreVersion(e) == \E v \in versions : ReadsTemplate(e, v.content)

\* The versions are counted, and the save is set off.
ReplacedByNew(w) == w.new                                                \* mutant
Replaced(w)      == w.old
SnapshotTemplate(e) ==
    LET w == edit[e]
    IN  /\ w.pc = "count" /\ Editing(e, [w EXCEPT !.pc = "write"])
        /\ saving' = saving \union {[id |-> w.id, number |-> Cardinality(versions) + 1, content |-> Replaced(w)]}
        /\ UNCHANGED <<template, versions, editLog>>

\* It arrives, before or after the overwriting, or fails unnoticed.
SaveVersion ==
    \E s \in saving :
        /\ template # 0 /\ saving' = saving \ {s} /\ versions' = versions \union {s}
        /\ UNCHANGED <<template, edit, editLog>>
SaveFails ==
    \E s \in saving :
        /\ saving' = saving \ {s} /\ UNCHANGED <<template, versions, edit>>
        /\ IF template = 0 THEN UNCHANGED editLog ELSE EditSpend([editLog EXCEPT !.unsaved = @ \union {s.content}])

\* What another request wrote since this one read the template is replaced unread.
OverwriteTemplate(e) ==
    LET w == edit[e]
    IN  /\ w.pc = "write" /\ template # 0 /\ template' = w.new /\ Editing(e, NoEdit)
        /\ editLog' = [editLog EXCEPT !.contents = @ \union {w.new}, !.unread = IF template = w.old THEN @ ELSE @ \union {template}]
        /\ UNCHANGED <<versions, saving>>

\* The text does not compile, the update fails, the template is gone, or the
\* process dies, with a save it may have set off.
EditFails(e) ==
    /\ edit[e].pc # "idle" /\ Editing(e, NoEdit) /\ UNCHANGED <<template, versions>>
    /\ saving' \in {saving, {s \in saving : s.id # edit[e].id}}
    /\ IF template = 0 THEN UNCHANGED editLog ELSE EditSpend(editLog)

\* DELETE takes the versions along.
DeleteTemplate ==
    /\ template # 0 /\ template' = 0 /\ versions' = {} /\ EditSpend(editLog) /\ UNCHANGED <<saving, edit>>

TemplatesNext ==
    \/ \E e \in Editors : PatchTemplate(e) \/ RestoreVersion(e) \/ SnapshotTemplate(e) \/ OverwriteTemplate(e) \/ EditFails(e)
    \/ SaveVersion \/ SaveFails \/ DeleteTemplate

TemplatesSpec == TemplatesInit /\ [][TemplatesNext]_templateVars

------------------------------------------------------------------------------
\* Whatever the template once said can be restored, unless its save failed, or
\* two requests overlapped and one overwrote what it had not read.
HistoryKeepsAll ==
    template # 0 => editLog.contents \subseteq {template} \union {v.content : v \in versions \union saving}
                                               \union editLog.unsaved \union editLog.unread

\* The number of a version names it, when requests do not overlap.  (Does not
\* hold: the next change counts before the last one's save has arrived.)
NumbersNameVersions ==
    Cardinality(Editors) = 1 => \A v, w \in versions : v.number = w.number => v = w
==============================================================================
