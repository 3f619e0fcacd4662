---------------------------- MODULE ContentEditor ----------------------------
(***************************************************************************)
(* The editor of the public pages (app/admin/content/page.tsx) over its    *)
(* route (app/api/admin/content/route.ts).  One form serves all pages: the *)
(* selection decides what is loaded into it and, separately, under which   *)
(* page it is saved.  Loads are not cancelled, and a file is uploaded for  *)
(* the section at an index, whatever happens to the sections meanwhile.    *)
(***************************************************************************)
EXTENDS Enumeration

CONSTANTS
    Pages,      \* pairs of page and language
    None,
    MaxLoads,   \* bound on the pages selected
    MaxTurns,   \* bound on edits, uploads and saves
    MaxFaults   \* bound on failing calls

VARIABLES view, net

vars == <<view, net>>
LoadIds == 1 .. MaxLoads

\* A section has an id of the model, 0 if it consists of a file only, and the
\* id of the section its file was meant for, 0 if that moved meanwhile.
Section(id) == [id |-> id, file |-> None]
Content(page) == [of |-> page, sections |-> <<Section(1), Section(2)>>,
                  table |-> FALSE, text |-> 0]
Empty == [of |-> None, sections |-> <<>>, table |-> FALSE, text |-> 0]
NoLoad == [page |-> None, at |-> "none", content |-> Empty]
NoSave == [page |-> None, at |-> "none", content |-> Empty]
NoUpload == [index |-> 0, id |-> 0]

\* The effect has sent the first load.
Init ==
    \E p \in Pages :
        /\ view = [page |-> p, form |-> Empty, loading |-> TRUE,
                   saving |-> FALSE, told |-> "none"]
        /\ net = [stored |-> [q \in Pages |-> Content(q)],
                  loads |-> [[i \in LoadIds |-> NoLoad] EXCEPT
                                ![1] = [NoLoad EXCEPT !.page = p, !.at = "sent"]],
                  sent |-> 1, save |-> NoSave, upload |-> NoUpload,
                  turns |-> 0, faults |-> 0, crossed |-> FALSE,
                  moved |-> FALSE]

Pending == {i \in LoadIds : net.loads[i].at # "none"}
Uploading == net.upload # NoUpload

\* The panels of the form, which "Loading" replaces.
FieldsOffered == ~view.loading
SectionsOffered == IF view.loading THEN {} ELSE DOMAIN view.form.sections
MediaOffered == ~view.loading /\ ~Uploading
TableOffered == ~view.loading
SaveOffered == ~view.saving /\ ~view.loading

-----------------------------------------------------------------------------
\* fetchContent, for the page selected.
Select(p) ==
    /\ p # view.page /\ net.sent < MaxLoads
    /\ view' = [view EXCEPT !.page = p, !.loading = TRUE]
    /\ net' = [net EXCEPT
            !.sent = @ + 1, !.crossed = @ \/ Pending # {},
            !.loads[net.sent + 1] = [NoLoad EXCEPT !.page = p, !.at = "sent"]]

\* Mutant: the record is looked up by the page without its language.
ServeLoad_AnyLang(i) ==
    /\ net.loads[i].at = "sent"
    /\ \E p \in Pages :
        net' = [net EXCEPT !.loads[i].at = "ok",
                           !.loads[i].content = net.stored[p]]
    /\ UNCHANGED view

\* GET: what was saved, or the text the program comes with.
ServeLoad(i) ==
    /\ net.loads[i].at = "sent"
    /\ net' = [net EXCEPT !.loads[i].at = "ok",
                          !.loads[i].content = net.stored[net.loads[i].page]]
    /\ UNCHANGED view

LoadArrives(i) ==
    /\ net.loads[i].at = "ok"
    /\ view' = [view EXCEPT !.form = net.loads[i].content, !.loading = FALSE]
    /\ net' = [net EXCEPT !.loads[i] = NoLoad, !.moved = @ \/ Uploading]

\* Mutant: loading is only cleared on success.
LoadFails_Hangs(i) ==
    /\ net.loads[i].at = "sent" /\ net.faults < MaxFaults
    /\ UNCHANGED view
    /\ net' = [net EXCEPT !.loads[i] = NoLoad, !.faults = @ + 1,
                          !.crossed = TRUE]

\* The form keeps what it had.
LoadFails(i) ==
    /\ net.loads[i].at = "sent" /\ net.faults < MaxFaults
    /\ view' = [view EXCEPT !.loading = FALSE]
    /\ net' = [net EXCEPT !.loads[i] = NoLoad, !.faults = @ + 1,
                          !.crossed = TRUE]

-----------------------------------------------------------------------------
\* The edits of the form; each is a function of the state it finds.
Turn == net.turns < MaxTurns
Edited(form) ==
    /\ Turn
    /\ view' = [view EXCEPT !.form = form]

ChangeField ==
    /\ FieldsOffered
    /\ Edited([view.form EXCEPT !.text = @ + 1])
    /\ net' = [net EXCEPT !.turns = @ + 1]

ChangeTable ==
    /\ TableOffered
    /\ Edited([view.form EXCEPT !.table = ~@])
    /\ net' = [net EXCEPT !.turns = @ + 1]

AddSection ==
    /\ FieldsOffered
    /\ Edited([view.form EXCEPT !.sections = Append(@, Section(3 + net.turns))])
    /\ net' = [net EXCEPT !.turns = @ + 1]

DeleteSection ==
    \E n \in SectionsOffered :
        /\ Edited([view.form EXCEPT !.sections = RemoveAt(@, n)])
        /\ net' = [net EXCEPT !.turns = @ + 1, !.moved = @ \/ Uploading]

\* FileUploader.
Upload ==
    /\ MediaOffered /\ Turn
    /\ \E n \in SectionsOffered :
        net' = [net EXCEPT !.turns = @ + 1, !.moved = FALSE,
                    !.upload = [index |-> n, id |-> view.form.sections[n].id]]
    /\ UNCHANGED view

\* Mutant: one section too far.
Placed_Next(s, n, file) ==
    IF n + 1 \in DOMAIN s THEN [s EXCEPT ![n + 1].file = file]
    ELSE Append(s, [id |-> 0, file |-> file])

\* handleSectionChange at an index that may be gone.
Placed(s, n, file) ==
    IF n \in DOMAIN s THEN [s EXCEPT ![n].file = file]
    ELSE Append(s, [id |-> 0, file |-> file])

UploadArrives ==
    /\ Uploading
    /\ view' = [view EXCEPT !.form.sections =
                    Placed(@, net.upload.index,
                           IF net.moved THEN 0 ELSE net.upload.id)]
    /\ net' = [net EXCEPT !.upload = NoUpload]

UploadFails ==
    /\ Uploading /\ net.faults < MaxFaults
    /\ net' = [net EXCEPT !.upload = NoUpload, !.faults = @ + 1]
    /\ UNCHANGED view

-----------------------------------------------------------------------------
\* handleSave: the form as it is now, under the page selected now.
HandleSave ==
    /\ SaveOffered /\ Turn
    /\ view' = [view EXCEPT !.saving = TRUE, !.told = "none"]
    /\ net' = [net EXCEPT !.turns = @ + 1,
                          !.save = [page |-> view.page, at |-> "sent",
                                    content |-> view.form]]

\* POST: an upsert.
ServeSave ==
    /\ net.save.at = "sent"
    /\ net' = [net EXCEPT !.save.at = "ok",
                          !.stored[net.save.page] = net.save.content]
    /\ UNCHANGED view

SaveFails ==
    /\ net.save.at = "sent" /\ net.faults < MaxFaults
    /\ net' = [net EXCEPT !.save.at = "failed", !.faults = @ + 1]
    /\ UNCHANGED view

\* Mutant: the status of the answer is not looked at.
SaveEnds_Optimistic ==
    /\ net.save.at \in {"ok", "failed"}
    /\ view' = [view EXCEPT !.saving = FALSE, !.told = "success"]
    /\ net' = [net EXCEPT !.save.at = "over"]

SaveEnds ==
    /\ net.save.at \in {"ok", "failed"}
    /\ view' = [view EXCEPT !.saving = FALSE,
            !.told = IF net.save.at = "ok" THEN "success" ELSE "error"]
    /\ net' = [net EXCEPT !.save.at = "over"]

Next ==
    \/ \E p \in Pages : Select(p)
    \/ \E i \in LoadIds : ServeLoad(i) \/ LoadArrives(i) \/ LoadFails(i)
    \/ ChangeField \/ ChangeTable \/ AddSection \/ DeleteSection
    \/ Upload \/ UploadArrives \/ UploadFails
    \/ HandleSave \/ ServeSave \/ SaveFails \/ SaveEnds

Spec == Init /\ [][Next]_vars

-----------------------------------------------------------------------------
TypeOK ==
    /\ view.page \in Pages /\ view.form.of \in Pages \union {None}
    /\ net.save.at \in {"none", "sent", "ok", "failed", "over"}
    /\ net.sent \in LoadIds /\ net.turns \in 0 .. MaxTurns
    /\ net.faults \in 0 .. MaxFaults

\* No page is saved over another: what is stored for a page was loaded from
\* it, unless loads overtook each other or one failed.
SavedWhereItBelongs ==
    net.crossed \/ \A p \in Pages : net.stored[p].of = p

\* A file is in the section it was uploaded for, unless that moved under it.
UploadsStayInSection ==
    \A n \in DOMAIN view.form.sections :
        LET s == view.form.sections[n] IN
        s.file \in {None, 0, s.id}

\* After a success toast the page holds what the form was when it was sent.
ToastsAreHonest ==
    view.told = "success" => net.stored[net.save.page] = net.save.content

ShownIsCurrent ==
    Pending = {} /\ ~net.crossed => view.form.of = view.page

LoadingHasAnEnd ==
    /\ view.loading => Pending # {}
    /\ view.saving => net.save.at \in {"sent", "ok", "failed"}
=============================================================================
