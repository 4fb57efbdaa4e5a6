------------------------------ MODULE Invoices ------------------------------
(***************************************************************************)
(* A tribe's invoices: a record in the database and a PDF in the bucket,   *)
(* written one after the other.  An admin uploads, renumbers, replaces the *)
(* file and deletes; the tribe opens.  Every request uploads at most one   *)
(* object, under a key of its own.                                         *)
(***************************************************************************)
EXTENDS Integers, FiniteSets, Functions

CONSTANTS
    Papers,       \* invoice records
    Numbers,      \* invoice numbers
    Errands,      \* requests; the object an errand uploads is named after it
    NoFile,
    PaperFaults,  \* bound on the requests that die and the deletes that fail
    OneByOne      \* values of serial

ASSUME InvoiceAssumption ==
    /\ NoFile \notin Errands \cup Papers /\ Numbers # {}
    /\ PaperFaults \in Nat /\ OneByOne \subseteq BOOLEAN

VARIABLES
    invoice,  \* invoice[i]: [state, number, fileKey, viewed]
    bucket,   \* the keys that hold an object
    errand,   \* errand[e]: [pc, what, paper, number, fileKey: the key it read]
    opened,   \* opened[i]: the keys whose content the tribe was given
    serial,   \* whether a request waits for the one before it to end
    faults

invoiceVars == <<invoice, bucket, errand, opened, serial, faults>>

NoErrand == [pc |-> "idle", what |-> "none", paper |-> NoFile,
             number |-> CHOOSE n \in Numbers : TRUE, fileKey |-> NoFile]

InvoicesTypeOK ==
    /\ \A i \in Papers :
         /\ invoice[i].state \in {"none", "live", "deleted"}
         /\ invoice[i].number \in Numbers /\ invoice[i].fileKey \in Errands \cup {NoFile}
    /\ bucket \subseteq Errands
    /\ \A e \in Errands : errand[e].pc \in {"idle", "number", "upload", "write", "drop", "stream", "view", "done"}

InvoicesInit ==
    /\ invoice = [i \in Papers |-> [state |-> "none", number |-> CHOOSE n \in Numbers : TRUE,
                                    fileKey |-> NoFile, viewed |-> FALSE]]
    /\ bucket = {} /\ faults = 0
    /\ errand = [e \in Errands |-> NoErrand]
    /\ opened = [i \in Papers |-> {}]
    /\ serial \in OneByOne

Live == {i \in Papers : invoice[i].state = "live"}
Taken(n, but) == \E i \in Live \ {but} : invoice[i].number = n
To(e, pc) == errand' = [errand EXCEPT ![e].pc = pc]
Same == UNCHANGED <<serial, faults>>

-----------------------------------------------------------------------------
\* A request arrives; findLive reads the record it is about.
Arrive(e) ==
    /\ errand[e].pc = "idle" /\ (serial => \A d \in Errands : errand[d].pc \in {"idle", "done"})
    /\ \E i \in Papers, n \in Numbers :
         LET q == [NoErrand EXCEPT !.paper = i, !.number = n, !.fileKey = invoice[i].fileKey] IN
         \/ /\ invoice[i].state = "none"
            /\ errand' = [errand EXCEPT ![e] = [q EXCEPT !.what = "create", !.pc = "number"]]
         \/ /\ i \in Live
            /\ \/ /\ n # invoice[i].number
                  /\ errand' = [errand EXCEPT ![e] = [q EXCEPT !.what = "update", !.pc = "number"]]
               \/ errand' = [errand EXCEPT ![e] = [q EXCEPT !.what = "replace", !.pc = "upload"]]
               \/ errand' = [errand EXCEPT ![e] = [q EXCEPT !.what = "remove", !.pc = "write"]]
               \/ errand' = [errand EXCEPT ![e] = [q EXCEPT !.what = "open", !.pc = "stream"]]
    /\ UNCHANGED <<invoice, bucket, opened>> /\ Same

assertNumberFree(e) ==
    LET q == errand[e] IN
    /\ q.pc = "number"
    /\ To(e, IF Taken(q.number, NoFile) THEN "done" ELSE IF q.what = "create" THEN "upload" ELSE "write")
    /\ UNCHANGED <<invoice, bucket, opened>> /\ Same

\* Faulty variant: nobody waits for the upload, which fails.
PutUnawaited(e) ==
    /\ errand[e].pc = "upload"
    /\ To(e, "write")
    /\ UNCHANGED <<invoice, bucket, opened>> /\ Same

putPrivatePdf(e) ==
    /\ errand[e].pc = "upload"
    /\ bucket' = bucket \cup {e}
    /\ To(e, "write")
    /\ UNCHANGED <<invoice, opened>> /\ Same

\* The record is created; where the number was taken meanwhile (the unique
\* index) or the document exists, the object goes again.
WriteCreate(e) ==
    LET q == errand[e]
        duplicate == Taken(q.number, NoFile) \/ invoice[q.paper].state # "none"
    IN  /\ q.pc = "write" /\ q.what = "create"
        /\ IF duplicate
           THEN errand' = [errand EXCEPT ![e].pc = "drop", ![e].fileKey = e] /\ UNCHANGED invoice
           ELSE /\ invoice' = [invoice EXCEPT ![q.paper] =
                      [state |-> "live", number |-> q.number, fileKey |-> e, viewed |-> FALSE]]
                /\ To(e, "done")
        /\ UNCHANGED <<bucket, opened>> /\ Same

\* Faulty variant: the number checked at the beginning is not checked again.
RenumberAnyway(e) ==
    LET q == errand[e] IN
    /\ q.pc = "write" /\ q.what = "update"
    /\ invoice' = IF q.paper \in Live
                  THEN [invoice EXCEPT ![q.paper].number = q.number] ELSE invoice
    /\ To(e, "done")
    /\ UNCHANGED <<bucket, opened>> /\ Same

WriteNumber(e) ==
    LET q == errand[e] IN
    /\ q.pc = "write" /\ q.what = "update"
    /\ invoice' = IF q.paper \in Live /\ ~Taken(q.number, q.paper)
                  THEN [invoice EXCEPT ![q.paper].number = q.number] ELSE invoice
    /\ To(e, "done")
    /\ UNCHANGED <<bucket, opened>> /\ Same

\* Faulty variant: the object the record had is forgotten.
ReplaceOnly(e) ==
    LET q == errand[e] IN
    /\ q.pc = "write" /\ q.what = "replace"
    /\ invoice' = IF q.paper \in Live
                  THEN [invoice EXCEPT ![q.paper].fileKey = e, ![q.paper].viewed = FALSE] ELSE invoice
    /\ To(e, "done")
    /\ UNCHANGED <<bucket, opened>> /\ Same

\* Faulty variant: whether the tribe opened it is left as it was.
ReplaceUnseen(e) ==
    LET q == errand[e] IN
    /\ q.pc = "write" /\ q.what = "replace"
    /\ IF q.paper \in Live
       THEN invoice' = [invoice EXCEPT ![q.paper].fileKey = e] /\ To(e, "drop")
       ELSE errand' = [errand EXCEPT ![e].pc = "drop", ![e].fileKey = e] /\ UNCHANGED invoice
    /\ UNCHANGED <<bucket, opened>> /\ Same

\* The record points at the new file, not yet viewed; the object it had when
\* the request began goes, or the new one if the invoice was deleted since.
WriteReplace(e) ==
    LET q == errand[e] IN
    /\ q.pc = "write" /\ q.what = "replace"
    /\ IF q.paper \in Live
       THEN /\ invoice' = [invoice EXCEPT ![q.paper].fileKey = e, ![q.paper].viewed = FALSE]
            /\ To(e, "drop")
       ELSE errand' = [errand EXCEPT ![e].pc = "drop", ![e].fileKey = e] /\ UNCHANGED invoice
    /\ UNCHANGED <<bucket, opened>> /\ Same

\* Soft delete; the object to delete is the one the record has now.
WriteRemove(e) ==
    LET q == errand[e] IN
    /\ q.pc = "write" /\ q.what = "remove"
    /\ IF q.paper \in Live
       THEN /\ invoice' = [invoice EXCEPT ![q.paper].state = "deleted"]
            /\ errand' = [errand EXCEPT ![e].pc = "drop", ![e].fileKey = invoice[q.paper].fileKey]
       ELSE To(e, "done") /\ UNCHANGED invoice
    /\ UNCHANGED <<bucket, opened>> /\ Same

\* Best effort: the object goes, or the bucket fails and it stays.
deletePrivateObject(e) ==
    /\ errand[e].pc = "drop"
    /\ \/ bucket' = bucket \ {errand[e].fileKey} /\ UNCHANGED faults
       \/ faults < PaperFaults /\ faults' = faults + 1 /\ UNCHANGED bucket
    /\ To(e, "done")
    /\ UNCHANGED <<invoice, opened, serial>>

-----------------------------------------------------------------------------
\* The tribe opens the file it read of, and it counts as viewed from the first time.
getPrivateObject(e) ==
    LET q == errand[e] IN
    /\ q.pc = "stream"
    /\ IF q.fileKey \in bucket
       THEN /\ opened' = [opened EXCEPT ![q.paper] = @ \cup {q.fileKey}]
            /\ To(e, "view")
       ELSE To(e, "done") /\ UNCHANGED opened
    /\ UNCHANGED <<invoice, bucket>> /\ Same

MarkViewed(e) ==
    /\ errand[e].pc = "view"
    /\ invoice' = [invoice EXCEPT ![errand[e].paper].viewed = TRUE]
    /\ To(e, "done")
    /\ UNCHANGED <<bucket, opened>> /\ Same

ErrandDies(e) ==
    /\ errand[e].pc \notin {"idle", "done"} /\ faults < PaperFaults
    /\ faults' = faults + 1
    /\ To(e, "done")
    /\ UNCHANGED <<invoice, bucket, opened, serial>>

InvoicesNext ==
    \E e \in Errands :
        \/ Arrive(e) \/ assertNumberFree(e) \/ putPrivatePdf(e)
        \/ WriteCreate(e) \/ WriteNumber(e) \/ WriteReplace(e) \/ WriteRemove(e)
        \/ deletePrivateObject(e) \/ getPrivateObject(e) \/ MarkViewed(e) \/ ErrandDies(e)

InvoicesSpec == InvoicesInit /\ [][InvoicesNext]_invoiceVars

-----------------------------------------------------------------------------
\* A live invoice's PDF is in the bucket, whatever requests overlap, die or
\* fail to delete (create, replaceFile, remove).
LiveFileExists == \A i \in Live : invoice[i].fileKey \in bucket

\* One live invoice per number, however requests overlap (the unique index
\* behind assertNumberFree).
OneLivePerNumber == \A i, j \in Live : invoice[i].number = invoice[j].number => i = j

\* No object is left behind by requests that come one at a time and run to
\* their end (replaceFile, remove).
NothingLeftBehind ==
    (serial /\ faults = 0 /\ \A e \in Errands : errand[e].pc \in {"idle", "done"})
        => bucket = {invoice[i].fileKey : i \in Live}

\* "The tribe hasn't seen the new one, so `viewedAt` is reset": a live invoice
\* that counts as viewed had its present file opened.
ViewedWasOpened ==
    serial => \A i \in Live : invoice[i].viewed => invoice[i].fileKey \in opened[i]

\* The same when requests overlap.
ViewedWasOpenedAlways == \A i \in Live : invoice[i].viewed => invoice[i].fileKey \in opened[i]

\* What an invoice promises whoever replaces, renumbers, removes or opens it.
PapersInOrder == LiveFileExists /\ OneLivePerNumber /\ NothingLeftBehind /\ ViewedWasOpened
=============================================================================
