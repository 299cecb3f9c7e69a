--------------------------- MODULE Members_proofs ---------------------------
(***************************************************************************)
(* Proofs about Members, for any users, keys, clock, goroutines and mixes  *)
(* of requests.                                                            *)
(***************************************************************************)
EXTENDS Members, TLAPS

-----------------------------------------------------------------------------
(* Types.                                                                  *)

\* The locals a handler uses are set where it uses them.
Fits(r) ==
    /\ r.pc \in {"react", "reactInsert", "report", "reviewRemove", "review", "removePost",
                 "lastPost"} => r.post \in PostIds
    /\ r.pc \in {"react", "reactInsert", "opInsert", "insert", "lastPost", "draftRead",
                 "draftDelete", "viewMark", "viewList", "markRead", "hide"} => r.user \in Users
    /\ r.pc \in {"opInsert", "insert", "lastPost", "draftRead", "draftDelete", "viewMark",
                 "viewList", "deleteThread"} => r.thread \in ThreadIds
    /\ r.pc \in {"reviewRemove", "review", "draftDelete", "discard", "markRead", "hide"}
         => r.row \in RowIds
    /\ r.pc \in {"reviewRemove", "review"} => r.verdict \in Verdicts

\* A message is never removed.
Kept(r) == r.pc \in {"markRead", "hide"} => r.row \in Sent

TypeInv == TypeOK /\ \A p \in Procs : Fits(req[p]) /\ Kept(req[p])

LEMMA NoRequestType == NoRequest \in Request(PCs) /\ Fits(NoRequest)
BY RequestsOK DEF NoRequest, Request, PCs, Times, Fits

LEMMA RequestFields ==
    ASSUME NEW r \in Request(PCs)
    PROVE  /\ r.pc \in PCs /\ r.user \in Users \cup {None} /\ r.thread \in ThreadIds \cup {None}
           /\ r.post \in PostIds \cup {None} /\ r.row \in RowIds \cup {None}
           /\ r.verdict \in Verdicts \cup {None} /\ r.at \in Times
BY DEF Request

\* One request goes on.
LEMMA RequestStep ==
    ASSUME TypeInv, NEW p \in Procs, NEW r \in Request(PCs), Fits(r),
           req' = [req EXCEPT ![p] = r]
    PROVE  /\ req' \in [Procs -> Request(PCs)] /\ \A q \in Procs : Fits(req'[q])
           /\ req'[p] = r /\ \A q \in Procs \ {p} : req'[q] = req[q]
<1>1. req \in [Procs -> Request(PCs)] /\ \A q \in Procs : Fits(req[q])
  BY DEF TypeInv, TypeOK
<1> HIDE DEF Fits, Request
<1>2. \A q \in Procs : req'[q] = IF q = p THEN r ELSE req[q]
  BY <1>1
<1>3. req' \in [Procs -> Request(PCs)]
  BY <1>1
<1>4. QED BY <1>1, <1>2, <1>3

\* A handler ends.
LEMMA FinishStep ==
    ASSUME NEW p \in Procs, Finish(p)
    PROVE  \E r \in Request(PCs) : Fits(r) /\ req' = [req EXCEPT ![p] = r] /\ r = NoRequest
BY NoRequestType DEF Finish

\* A handler goes on to another label.
LEMMA GotoStep ==
    ASSUME TypeInv, NEW p \in Procs, NEW label \in PCs, Goto(p, label),
           \/ At(p, "react") /\ label = "reactInsert"
           \/ At(p, "reviewRemove") /\ label = "review"
           \/ At(p, "lastPost") /\ label = "draftRead"
           \/ At(p, "viewMark") /\ label = "viewList"
    PROVE  \E r \in Request(PCs) : /\ Fits(r) /\ req' = [req EXCEPT ![p] = r]
                                   /\ r = [req[p] EXCEPT !.pc = label]
<1>1. req \in [Procs -> Request(PCs)] /\ req[p] \in Request(PCs) /\ Fits(req[p])
  BY DEF TypeInv, TypeOK
<1>2. PICK r : r = [req[p] EXCEPT !.pc = label]
  OBVIOUS
<1>3. /\ r \in Request(PCs) /\ r.pc = label /\ r.post = req[p].post /\ r.user = req[p].user
      /\ r.thread = req[p].thread /\ r.row = req[p].row /\ r.verdict = req[p].verdict
  BY <1>1, <1>2 DEF Request
<1>4. Fits(r)
  BY <1>1, <1>3 DEF Fits, At
<1>5. req' = [req EXCEPT ![p] = r]
  BY <1>1, <1>2 DEF Goto
<1>6. QED BY <1>2, <1>3, <1>4, <1>5

\* What a handler begins with.
Begins(r) ==
    /\ r.pc \in {"react", "report", "reviewRemove", "review", "insert", "viewMark", "discard",
                 "hide", "removePost", "deleteThread"}
    /\ r.pc \in {"react", "report"} => r.post \in Posts
    /\ r.pc \in {"reviewRemove", "review"} =>
         r.row \in Reports /\ r.post = reports[r.row].post
    /\ r.pc = "review" => r.verdict # "reviewed"
    /\ r.pc = "hide" =>
         r.row \in Sent /\ r.user \in {messages[r.row].sender, messages[r.row].recipient}
    /\ r.pc = "deleteThread" => "deleteThread" \in kinds

\* The starts that write nothing.
Reads(p) ==
    \/ ReactRead(p) \/ ReportRead(p) \/ ReviewRead(p) \/ ReplyRead(p) \/ ViewRead(p)
    \/ DiscardRead(p) \/ DeleteMessage(p) \/ RemovePostRead(p) \/ DeleteThreadRead(p)

LEMMA StartStep ==
    ASSUME TypeInv, NEW p \in Procs, Reads(p)
    PROVE  \E r \in Request(PCs) : Fits(r) /\ req' = [req EXCEPT ![p] = r] /\ Begins(r)
<1>0. /\ Mods \subseteq Users /\ Posts \subseteq PostIds /\ Threads \subseteq ThreadIds
      /\ Reports \subseteq RowIds /\ Drafts \subseteq RowIds /\ Sent \subseteq RowIds
      /\ clock \in Times
      /\ \A k \in Reports : reports[k].post \in PostIds
  BY RequestsOK DEF Posts, Threads, Reports, Drafts, Sent, TypeInv, TypeOK, FeedbackTypeOK,
                    ReportRow
<1>1. CASE ReactRead(p)
  <2>1. PICK u \in Users, i \in Posts :
          /\ req' = [req EXCEPT ![p] = [NoRequest EXCEPT !.pc = "react", !.user = u, !.post = i]]
    BY <1>1 DEF ReactRead, Start
  <2>2. PICK r : r = [NoRequest EXCEPT !.pc = "react", !.user = u, !.post = i]
    OBVIOUS
  <2>3. r \in Request(PCs)
    BY <1>0, <2>1, <2>2, NoRequestType DEF Request, PCs, FeedbackPCs, FollowingPCs, MessagePCs
  <2>4. Fits(r) /\ Begins(r)
    BY <1>0, <2>1, <2>2 DEF NoRequest, Fits, Begins
  <2>5. QED BY <2>1, <2>2, <2>3, <2>4
<1>2. CASE ReportRead(p)
  <2>1. PICK u \in Users, i \in Posts :
          /\ req' = [req EXCEPT ![p] = [NoRequest EXCEPT !.pc = "report", !.user = u, !.post = i]]
    BY <1>2 DEF ReportRead, Start
  <2>2. PICK r : r = [NoRequest EXCEPT !.pc = "report", !.user = u, !.post = i]
    OBVIOUS
  <2>3. r \in Request(PCs)
    BY <1>0, <2>1, <2>2, NoRequestType DEF Request, PCs, FeedbackPCs, FollowingPCs, MessagePCs
  <2>4. Fits(r) /\ Begins(r)
    BY <1>0, <2>1, <2>2 DEF NoRequest, Fits, Begins
  <2>5. QED BY <2>1, <2>2, <2>3, <2>4
<1>3. CASE ReviewRead(p)
  <2>1. PICK u \in Mods, k \in Reports, v \in Verdicts, pc \in {"reviewRemove", "review"} :
          /\ req' = [req EXCEPT ![p] = [NoRequest EXCEPT !.pc = pc, !.user = u, !.row = k,
                                          !.post = reports[k].post, !.verdict = v]]
          /\ pc = "review" => v # "reviewed"
    BY <1>3 DEF ReviewRead, Start
  <2>2. PICK r : r = [NoRequest EXCEPT !.pc = pc, !.user = u, !.row = k,
                                       !.post = reports[k].post, !.verdict = v]
    OBVIOUS
  <2>3. r \in Request(PCs)
    BY <1>0, <2>1, <2>2, NoRequestType DEF Request, PCs, FeedbackPCs
  <2>4. Fits(r) /\ Begins(r)
    BY <1>0, <2>1, <2>2 DEF NoRequest, Fits, Begins
  <2>5. QED BY <2>1, <2>2, <2>3, <2>4
<1>4. CASE ReplyRead(p)
  <2>1. PICK u \in Users, t \in Threads :
          /\ req' = [req EXCEPT ![p] =
                         [NoRequest EXCEPT !.pc = "insert", !.user = u, !.thread = t, !.at = clock]]
    BY <1>4 DEF ReplyRead, Start
  <2>2. PICK r : r = [NoRequest EXCEPT !.pc = "insert", !.user = u, !.thread = t, !.at = clock]
    OBVIOUS
  <2>3. r \in Request(PCs)
    BY <1>0, <2>1, <2>2, NoRequestType DEF Request, PCs, FeedbackPCs, FollowingPCs, MessagePCs
  <2>4. Fits(r) /\ Begins(r)
    BY <1>0, <2>1, <2>2 DEF NoRequest, Fits, Begins
  <2>5. QED BY <2>1, <2>2, <2>3, <2>4
<1>5. CASE ViewRead(p)
  <2>1. PICK u \in Users, t \in Threads :
          /\ req' = [req EXCEPT ![p] =
                         [NoRequest EXCEPT !.pc = "viewMark", !.user = u, !.thread = t,
                                           !.at = clock]]
    BY <1>5 DEF ViewRead, Start
  <2>2. PICK r : r = [NoRequest EXCEPT !.pc = "viewMark", !.user = u, !.thread = t, !.at = clock]
    OBVIOUS
  <2>3. r \in Request(PCs)
    BY <1>0, <2>1, <2>2, NoRequestType DEF Request, PCs, FeedbackPCs, FollowingPCs, MessagePCs
  <2>4. Fits(r) /\ Begins(r)
    BY <1>0, <2>1, <2>2 DEF NoRequest, Fits, Begins
  <2>5. QED BY <2>1, <2>2, <2>3, <2>4
<1>6. CASE DiscardRead(p)
  <2>1. PICK d \in Drafts :
          /\ req' = [req EXCEPT ![p] = [NoRequest EXCEPT !.pc = "discard", !.row = d]]
    BY <1>6 DEF DiscardRead, Start
  <2>2. PICK r : r = [NoRequest EXCEPT !.pc = "discard", !.row = d]
    OBVIOUS
  <2>3. r \in Request(PCs)
    BY <1>0, <2>1, <2>2, NoRequestType DEF Request, PCs, FeedbackPCs, FollowingPCs, MessagePCs
  <2>4. Fits(r) /\ Begins(r)
    BY <1>0, <2>1, <2>2 DEF NoRequest, Fits, Begins
  <2>5. QED BY <2>1, <2>2, <2>3, <2>4
<1>7. CASE DeleteMessage(p)
  <2>1. PICK u \in Users, m \in Sent :
          /\ req' = [req EXCEPT ![p] = [NoRequest EXCEPT !.pc = "hide", !.user = u, !.row = m]]
          /\ u \in {messages[m].sender, messages[m].recipient}
    BY <1>7 DEF DeleteMessage, Start
  <2>2. PICK r : r = [NoRequest EXCEPT !.pc = "hide", !.user = u, !.row = m]
    OBVIOUS
  <2>3. r \in Request(PCs)
    BY <1>0, <2>1, <2>2, NoRequestType DEF Request, PCs, FeedbackPCs, FollowingPCs, MessagePCs
  <2>4. Fits(r) /\ Begins(r)
    BY <1>0, <2>1, <2>2 DEF NoRequest, Fits, Begins
  <2>5. QED BY <2>1, <2>2, <2>3, <2>4
<1>8. CASE RemovePostRead(p)
  <2>1. PICK u \in Mods, i \in Posts :
          /\ req' = [req EXCEPT ![p] =
                         [NoRequest EXCEPT !.pc = "removePost", !.user = u, !.post = i]]
    BY <1>8 DEF RemovePostRead, Start
  <2>2. PICK r : r = [NoRequest EXCEPT !.pc = "removePost", !.user = u, !.post = i]
    OBVIOUS
  <2>3. r \in Request(PCs)
    BY <1>0, <2>1, <2>2, NoRequestType DEF Request, PCs, FeedbackPCs, FollowingPCs, MessagePCs
  <2>4. Fits(r) /\ Begins(r)
    BY <1>0, <2>1, <2>2 DEF NoRequest, Fits, Begins
  <2>5. QED BY <2>1, <2>2, <2>3, <2>4
<1>9. CASE DeleteThreadRead(p)
  <2>1. PICK u \in Mods, t \in Threads :
          /\ req' = [req EXCEPT ![p] =
                         [NoRequest EXCEPT !.pc = "deleteThread", !.user = u, !.thread = t]]
          /\ "deleteThread" \in kinds
    BY <1>9 DEF DeleteThreadRead, Start
  <2>2. PICK r : r = [NoRequest EXCEPT !.pc = "deleteThread", !.user = u, !.thread = t]
    OBVIOUS
  <2>3. r \in Request(PCs)
    BY <1>0, <2>1, <2>2, NoRequestType DEF Request, PCs, FeedbackPCs, FollowingPCs, MessagePCs
  <2>4. Fits(r) /\ Begins(r)
    BY <1>0, <2>1, <2>2 DEF NoRequest, Fits, Begins
  <2>5. QED BY <2>1, <2>2, <2>3, <2>4
<1>10. QED BY <1>1, <1>2, <1>3, <1>4, <1>5, <1>6, <1>7, <1>8, <1>9 DEF Reads

\* How a handler goes on from the request r of before to s.
Moves(r, s) ==
    \/ s = r \/ s = NoRequest
    \/ r.pc = "react" /\ s = [r EXCEPT !.pc = "reactInsert"]
    \/ r.pc = "reviewRemove" /\ s = [r EXCEPT !.pc = "review"]
    \/ r.pc = "lastPost" /\ s = [r EXCEPT !.pc = "draftRead"]
    \/ r.pc = "viewMark" /\ s = [r EXCEPT !.pc = "viewList"]
    \/ r.pc = "insert" /\ \E i \in PostIds : s = [r EXCEPT !.pc = "lastPost", !.post = i]
    \/ r.pc = "draftRead" /\ \E d \in Drafts : s = [r EXCEPT !.pc = "draftDelete", !.row = d]
    \/ r.pc = "idle" /\ \E u \in Users, t \in ThreadIds :
         s = [NoRequest EXCEPT !.pc = "opInsert", !.user = u, !.thread = t, !.at = clock]
    \/ r.pc = "idle" /\ \E u \in Users, m \in Sent :
         s = [NoRequest EXCEPT !.pc = "markRead", !.user = u, !.row = m]

LEMMA MovesType ==
    ASSUME TypeInv, NEW r \in Request(PCs), NEW s, Fits(r), Moves(r, s)
    PROVE  s \in Request(PCs) /\ Fits(s)
<1>0. /\ Drafts \subseteq RowIds /\ Sent \subseteq RowIds /\ clock \in Times
      /\ Users \subseteq Users \cup {None}
  BY DEF Drafts, Sent, TypeInv, TypeOK
<1>1. CASE s = r \/ s = NoRequest
  BY <1>1, NoRequestType
<1>2. ASSUME NEW label \in PCs, s = [r EXCEPT !.pc = label],
             \/ r.pc = "react" /\ label = "reactInsert"
             \/ r.pc = "reviewRemove" /\ label = "review"
             \/ r.pc = "lastPost" /\ label = "draftRead"
             \/ r.pc = "viewMark" /\ label = "viewList"
      PROVE  s \in Request(PCs) /\ Fits(s)
  <2>1. /\ s \in Request(PCs) /\ s.pc = label /\ s.post = r.post /\ s.user = r.user
        /\ s.thread = r.thread /\ s.row = r.row /\ s.verdict = r.verdict
    BY <1>2 DEF Request
  <2>2. QED BY <1>2, <2>1 DEF Fits
<1>3. ASSUME r.pc = "insert", NEW i \in PostIds, s = [r EXCEPT !.pc = "lastPost", !.post = i]
      PROVE  s \in Request(PCs) /\ Fits(s)
  <2>1. /\ s \in Request(PCs) /\ s.pc = "lastPost" /\ s.post = i /\ s.user = r.user
        /\ s.thread = r.thread
    BY <1>3 DEF Request, PCs, FollowingPCs
  <2>2. QED BY <1>3, <2>1 DEF Fits
<1>4. ASSUME r.pc = "draftRead", NEW d \in Drafts,
             s = [r EXCEPT !.pc = "draftDelete", !.row = d]
      PROVE  s \in Request(PCs) /\ Fits(s)
  <2>1. /\ s \in Request(PCs) /\ s.pc = "draftDelete" /\ s.row = d /\ s.user = r.user
        /\ s.thread = r.thread
    BY <1>0, <1>4 DEF Request, PCs, FollowingPCs
  <2>2. QED BY <1>0, <1>4, <2>1 DEF Fits
<1>5. ASSUME NEW u \in Users, NEW t \in ThreadIds,
             s = [NoRequest EXCEPT !.pc = "opInsert", !.user = u, !.thread = t, !.at = clock]
      PROVE  s \in Request(PCs) /\ Fits(s)
  <2>1. s \in Request(PCs)
    BY <1>0, <1>5, NoRequestType DEF Request, PCs, FollowingPCs
  <2>2. QED BY <1>5, <2>1 DEF NoRequest, Fits
<1>6. ASSUME NEW u \in Users, NEW m \in Sent,
             s = [NoRequest EXCEPT !.pc = "markRead", !.user = u, !.row = m]
      PROVE  s \in Request(PCs) /\ Fits(s)
  <2>1. s \in Request(PCs)
    BY <1>0, <1>6, NoRequestType DEF Request, PCs, MessagePCs
  <2>2. QED BY <1>0, <1>6, <2>1 DEF NoRequest, Fits
<1>7. "reactInsert" \in PCs /\ "review" \in PCs /\ "draftRead" \in PCs /\ "viewList" \in PCs
  BY DEF PCs, FeedbackPCs, FollowingPCs
<1>8. CASE \E label \in PCs : s = [r EXCEPT !.pc = label] /\
             \/ r.pc = "react" /\ label = "reactInsert"
             \/ r.pc = "reviewRemove" /\ label = "review"
             \/ r.pc = "lastPost" /\ label = "draftRead"
             \/ r.pc = "viewMark" /\ label = "viewList"
  BY <1>2, <1>8
<1>9. QED BY <1>1, <1>3, <1>4, <1>5, <1>6, <1>7, <1>8 DEF Moves

LEMMA MovesFields ==
    ASSUME NEW r \in Request(PCs), NEW s, Moves(r, s)
    PROVE  \/ s = r \/ s = NoRequest
           \/ /\ \/ r.pc = "react" /\ s.pc = "reactInsert"
                 \/ r.pc = "reviewRemove" /\ s.pc = "review"
                 \/ r.pc = "lastPost" /\ s.pc = "draftRead"
                 \/ r.pc = "viewMark" /\ s.pc = "viewList"
              /\ s.user = r.user /\ s.thread = r.thread /\ s.post = r.post /\ s.row = r.row
              /\ s.verdict = r.verdict /\ s.at = r.at
           \/ /\ r.pc = "insert" /\ s.pc = "lastPost"
              /\ s.user = r.user /\ s.thread = r.thread /\ s.at = r.at
           \/ /\ r.pc = "draftRead" /\ s.pc = "draftDelete" /\ s.row \in Drafts
              /\ s.user = r.user /\ s.thread = r.thread
           \/ r.pc = "idle" /\ s.pc = "opInsert" /\ s.at = clock
           \/ r.pc = "idle" /\ s.pc = "markRead" /\ s.row \in Sent
<1>1. \A label :
        LET o == [r EXCEPT !.pc = label] IN
        /\ o.pc = label /\ o.user = r.user /\ o.thread = r.thread /\ o.post = r.post
        /\ o.row = r.row /\ o.verdict = r.verdict /\ o.at = r.at
  BY DEF Request
<1>2. \A i : LET o == [r EXCEPT !.pc = "lastPost", !.post = i] IN
             o.pc = "lastPost" /\ o.user = r.user /\ o.thread = r.thread /\ o.at = r.at
  BY DEF Request
<1>3. \A d : LET o == [r EXCEPT !.pc = "draftDelete", !.row = d] IN
             o.pc = "draftDelete" /\ o.row = d /\ o.user = r.user /\ o.thread = r.thread
  BY DEF Request
<1>4. \A u, t : LET o == [NoRequest EXCEPT !.pc = "opInsert", !.user = u, !.thread = t,
                                           !.at = clock] IN
                o.pc = "opInsert" /\ o.at = clock
  BY DEF NoRequest
<1>5. \A u, m : LET o == [NoRequest EXCEPT !.pc = "markRead", !.user = u, !.row = m] IN
                o.pc = "markRead" /\ o.row = m
  BY DEF NoRequest
<1>6. CASE \/ r.pc = "react" /\ s = [r EXCEPT !.pc = "reactInsert"]
           \/ r.pc = "reviewRemove" /\ s = [r EXCEPT !.pc = "review"]
           \/ r.pc = "lastPost" /\ s = [r EXCEPT !.pc = "draftRead"]
           \/ r.pc = "viewMark" /\ s = [r EXCEPT !.pc = "viewList"]
  <2>1. PICK label : /\ s = [r EXCEPT !.pc = label]
                     /\ \/ r.pc = "react" /\ label = "reactInsert"
                        \/ r.pc = "reviewRemove" /\ label = "review"
                        \/ r.pc = "lastPost" /\ label = "draftRead"
                        \/ r.pc = "viewMark" /\ label = "viewList"
    BY <1>6
  <2>2. /\ s.pc = label /\ s.user = r.user /\ s.thread = r.thread /\ s.post = r.post
        /\ s.row = r.row /\ s.verdict = r.verdict /\ s.at = r.at
    BY <1>1, <2>1
  <2>3. QED BY <2>1, <2>2
<1>7. CASE r.pc = "insert" /\ \E i \in PostIds : s = [r EXCEPT !.pc = "lastPost", !.post = i]
  BY <1>2, <1>7
<1>8. CASE /\ r.pc = "draftRead"
           /\ \E d \in Drafts : s = [r EXCEPT !.pc = "draftDelete", !.row = d]
  BY <1>3, <1>8
<1>9. CASE /\ r.pc = "idle"
           /\ \E u \in Users, t \in ThreadIds :
                s = [NoRequest EXCEPT !.pc = "opInsert", !.user = u, !.thread = t, !.at = clock]
  BY <1>4, <1>9
<1>10. CASE /\ r.pc = "idle"
            /\ \E u \in Users, m \in Sent :
                 s = [NoRequest EXCEPT !.pc = "markRead", !.user = u, !.row = m]
  BY <1>5, <1>10
<1>11. QED BY <1>6, <1>7, <1>8, <1>9, <1>10, Zenon DEF Moves

\* The steps of handlers that write, end or go on.
FeedbackWrites(p) ==
    ReactDelete(p) \/ ReactInsert(p) \/ CreateReport(p) \/ ReviewRemove(p) \/ ReviewReport(p)

FollowingWrites(p) ==
    \/ CreateThread(p) \/ CreatePost(p) \/ CreatePostFails(p) \/ UpdateLastPost(p)
    \/ GetDraftByThread(p) \/ DeleteDraft(p) \/ MarkThreadRead(p) \/ ListPosts(p)
    \/ SaveDraft(p)

MessageWrites(p) == SendMessage(p) \/ ViewMessage(p) \/ MarkPMRead(p) \/ Hide(p)

Writes(p) ==
    \/ FeedbackWrites(p) \/ FollowingWrites(p) \/ MessageWrites(p)
    \/ DeletePost(p) \/ DeleteThread(p) \/ DeleteThreadAlone(p) \/ LogAndGoOn(p) \/ Abort(p)

LEMMA WriteStep ==
    ASSUME TypeInv, NEW p \in Procs, Writes(p)
    PROVE  \E r \in Request(PCs) : /\ Fits(r) /\ req' = [req EXCEPT ![p] = r]
                                   /\ Moves(req[p], r)
<1>1. req \in [Procs -> Request(PCs)] /\ req[p] \in Request(PCs) /\ Fits(req[p])
  BY DEF TypeInv, TypeOK
<1>2. ASSUME NEW r, Moves(req[p], r), req' = [req EXCEPT ![p] = r]
      PROVE  \E s \in Request(PCs) : /\ Fits(s) /\ req' = [req EXCEPT ![p] = s]
                                     /\ Moves(req[p], s)
  BY <1>1, <1>2, MovesType
<1>3. CASE Finish(p)
  BY <1>2, <1>3 DEF Finish, Moves
<1>4. CASE UNCHANGED req
  <2>1. req' = [req EXCEPT ![p] = req[p]]
    BY <1>1, <1>4
  <2>2. QED BY <1>2, <2>1 DEF Moves
<1>5. ASSUME NEW label, Goto(p, label),
             \/ At(p, "react") /\ label = "reactInsert"
             \/ At(p, "reviewRemove") /\ label = "review"
             \/ At(p, "lastPost") /\ label = "draftRead"
             \/ At(p, "viewMark") /\ label = "viewList"
      PROVE  \E s \in Request(PCs) : /\ Fits(s) /\ req' = [req EXCEPT ![p] = s]
                                     /\ Moves(req[p], s)
  <2>1. PICK r : r = [req[p] EXCEPT !.pc = label]
    OBVIOUS
  <2>2. req' = [req EXCEPT ![p] = r]
    BY <1>1, <1>5, <2>1 DEF Goto
  <2>3. Moves(req[p], r)
    BY <1>5, <2>1 DEF Moves, At
  <2>4. QED BY <1>2, <2>2, <2>3
<1>6. CASE CreatePost(p) /\ At(p, "insert")
  <2>1. PICK i \in PostIds : req' = [req EXCEPT ![p].pc = "lastPost", ![p].post = i]
    BY <1>6 DEF CreatePost
  <2>2. PICK r : r = [req[p] EXCEPT !.pc = "lastPost", !.post = i]
    OBVIOUS
  <2>3. req' = [req EXCEPT ![p] = r]
    BY <1>1, <2>1, <2>2
  <2>4. Moves(req[p], r)
    BY <1>6, <2>2 DEF Moves, At
  <2>5. QED BY <1>2, <2>3, <2>4
<1>7. CASE GetDraftByThread(p) /\ ~Finish(p)
  <2>1. PICK d \in Drafts : req' = [req EXCEPT ![p].pc = "draftDelete", ![p].row = d]
    BY <1>7 DEF GetDraftByThread, DraftsAt
  <2>2. PICK r : r = [req[p] EXCEPT !.pc = "draftDelete", !.row = d]
    OBVIOUS
  <2>3. req' = [req EXCEPT ![p] = r]
    BY <1>1, <2>1, <2>2
  <2>4. Moves(req[p], r)
    BY <1>7, <2>2 DEF Moves, At, GetDraftByThread
  <2>5. QED BY <1>2, <2>3, <2>4
<1>8. CASE CreateThread(p)
  <2>1. PICK u \in Users, t \in ThreadIds :
          req' = [req EXCEPT ![p] = [NoRequest EXCEPT !.pc = "opInsert", !.user = u,
                                                      !.thread = t, !.at = clock]]
    BY <1>8 DEF CreateThread, Start
  <2>2. req[p].pc = "idle"
    BY <1>8 DEF CreateThread, Start, At
  <2>3. QED BY <1>2, <2>1, <2>2 DEF Moves
<1>9. CASE ViewMessage(p) /\ req' # req
  <2>1. PICK u \in Users, m \in Sent :
          req' = [req EXCEPT ![p] = [NoRequest EXCEPT !.pc = "markRead", !.user = u, !.row = m]]
    BY <1>9 DEF ViewMessage, Start
  <2>2. req[p].pc = "idle"
    BY <1>9 DEF ViewMessage, Start, At
  <2>3. QED BY <1>2, <2>1, <2>2 DEF Moves
<1>10. CASE ReactDelete(p)
  BY <1>3, <1>5, <1>10 DEF ReactDelete
<1>11. CASE CreatePost(p) /\ ~At(p, "insert")
  BY <1>3, <1>11 DEF CreatePost
<1>12. CASE ReviewRemove(p) \/ UpdateLastPost(p) \/ MarkThreadRead(p) \/ LogAndGoOn(p)
  BY <1>5, <1>12 DEF ReviewRemove, UpdateLastPost, MarkThreadRead, LogAndGoOn
<1>13. CASE SaveDraft(p) \/ SendMessage(p)
  BY <1>4, <1>13 DEF SaveDraft, SendMessage
<1>14. CASE \/ ReactInsert(p) \/ CreateReport(p) \/ ReviewReport(p) \/ CreatePostFails(p)
            \/ DeleteDraft(p) \/ ListPosts(p) \/ MarkPMRead(p) \/ Hide(p) \/ DeletePost(p)
            \/ DeleteThread(p) \/ DeleteThreadAlone(p) \/ Abort(p)
  BY <1>3, <1>14 DEF ReactInsert, CreateReport, ReviewReport, CreatePostFails, DeleteDraft,
       ListPosts, MarkPMRead, Hide, DeletePost, DeleteThread, DeleteThreadAlone, Abort
<1>15. QED BY <1>4, <1>6, <1>7, <1>8, <1>9, <1>10, <1>11, <1>12, <1>13, <1>14, <1>3 DEF Writes,
             FeedbackWrites, FollowingWrites, MessageWrites

\* The deletion of a thread with all it takes along.
DeleteAll(p) ==
    /\ DeleteThread(p)
    /\ CascadeFeedback(PostsOf(req[p].thread))
    /\ CascadeFollowing(req[p].thread, PostsOf(req[p].thread))

LEMMA NextCases ==
    ASSUME Next
    PROVE  \/ \E p \in Procs :
                \/ Reads(p) /\ UNCHANGED <<threads, posts, lost, clock, kinds, feedbackVars,
                                           followingVars, messageVars>>
                \/ FeedbackWrites(p) /\ UNCHANGED <<followingVars, messageVars>>
                \/ FollowingWrites(p) /\ UNCHANGED <<feedbackVars, messageVars>>
                \/ MessageWrites(p) /\ UNCHANGED <<feedbackVars, followingVars>>
                \/ DeletePost(p) /\ UNCHANGED <<feedbackVars, followingVars, messageVars>>
                \/ DeleteAll(p) /\ UNCHANGED messageVars
                \/ /\ DeleteThreadAlone(p)
                   /\ UNCHANGED <<feedbackVars, followingVars, messageVars>>
                \/ LogAndGoOn(p) \/ Abort(p)
           \/ Tick /\ UNCHANGED <<feedbackVars, followingVars, messageVars>>
           \/ CleanupOldDrafts /\ UNCHANGED <<feedbackVars, messageVars>>
<1>1. ASSUME NEW p \in Procs, FeedbackNext(p), UNCHANGED <<followingVars, messageVars>>
      PROVE  \/ Reads(p) /\ UNCHANGED <<threads, posts, lost, clock, kinds, feedbackVars,
                                        followingVars, messageVars>>
             \/ FeedbackWrites(p)
  BY <1>1 DEF FeedbackNext, Reads, FeedbackWrites, ReactRead, ReportRead, ReviewRead,
              feedbackVars
<1>2. ASSUME NEW p \in Procs, FollowingNext(p), UNCHANGED <<feedbackVars, messageVars>>
      PROVE  \/ Reads(p) /\ UNCHANGED <<threads, posts, lost, clock, kinds, feedbackVars,
                                        followingVars, messageVars>>
             \/ FollowingWrites(p)
  BY <1>2 DEF FollowingNext, Reads, FollowingWrites, ReplyRead, ViewRead, DiscardRead,
              followingVars
<1>3. ASSUME NEW p \in Procs, MessagesNext(p), UNCHANGED <<feedbackVars, followingVars>>
      PROVE  \/ Reads(p) /\ UNCHANGED <<threads, posts, lost, clock, kinds, feedbackVars,
                                        followingVars, messageVars>>
             \/ MessageWrites(p)
  BY <1>3 DEF MessagesNext, Reads, MessageWrites, DeleteMessage, messageVars
<1>4. ASSUME NEW p \in Procs, RemoveAPost(p) \/ DeleteAThread(p)
      PROVE  \/ Reads(p) /\ UNCHANGED <<threads, posts, lost, clock, kinds, feedbackVars,
                                        followingVars, messageVars>>
             \/ DeletePost(p) /\ UNCHANGED <<feedbackVars, followingVars, messageVars>>
             \/ DeleteAll(p) /\ UNCHANGED messageVars
             \/ /\ DeleteThreadAlone(p)
                /\ UNCHANGED <<feedbackVars, followingVars, messageVars>>
  BY <1>4 DEF RemoveAPost, DeleteAThread, Reads, RemovePostRead, DeleteThreadRead, DeleteAll
<1>5. QED BY <1>1, <1>2, <1>3, <1>4, Zenon DEF Next, GiveFeedback, Follow, Write, Background

BaseTypeOK ==
    /\ threads \in [ThreadIds -> ThreadRow \cup {None}]
    /\ posts \in [PostIds -> PostRow \cup {None}]
    /\ clock \in Times
    /\ kinds \in KindSets

TablesOK == BaseTypeOK /\ FeedbackTypeOK /\ FollowingTypeOK /\ MessagesTypeOK

LEMMA RemovePostType ==
    ASSUME TypeInv, NEW i, RemovePost(i)
    PROVE  posts' \in [PostIds -> PostRow \cup {None}]
<1>1. posts \in [PostIds -> PostRow \cup {None}]
  BY DEF TypeInv, TypeOK
<1>2. \A j \in Posts : [posts[j] EXCEPT !.removed = TRUE] \in PostRow
  BY <1>1 DEF Posts, PostRow
<1>3. QED BY <1>1, <1>2 DEF RemovePost

LEMMA InsertPostType ==
    ASSUME TypeInv, NEW i, NEW t \in ThreadIds, NEW u \in Users, NEW at \in Times,
           InsertPost(i, t, u, at)
    PROVE  posts' \in [PostIds -> PostRow \cup {None}]
<1>1. posts \in [PostIds -> PostRow \cup {None}]
  BY DEF TypeInv, TypeOK
<1>2. [thread |-> t, author |-> u, removed |-> FALSE, stamp |-> at] \in PostRow
  BY DEF PostRow
<1>3. QED BY <1>1, <1>2 DEF InsertPost

LEMMA FeedbackTables ==
    ASSUME TypeInv, NEW p \in Procs, FeedbackWrites(p), UNCHANGED <<followingVars, messageVars>>
    PROVE  TablesOK'
<1>1. TablesOK /\ req[p] \in Request(PCs) /\ Fits(req[p])
  BY DEF TypeInv, TypeOK, TablesOK, BaseTypeOK
<1>2. FollowingTypeOK' /\ MessagesTypeOK'
  BY <1>1 DEF TablesOK, FollowingTypeOK, MessagesTypeOK, followingVars, messageVars
<1>3. CASE ReactDelete(p)
  <2>1. FeedbackTypeOK' /\ BaseTypeOK'
    BY <1>1, <1>3 DEF ReactDelete, TablesOK, FeedbackTypeOK, BaseTypeOK
  <2>2. QED BY <1>2, <2>1 DEF TablesOK
<1>4. CASE ReactInsert(p)
  <2>1. Pair(p) \in PostIds \X Users
    BY <1>1, <1>4 DEF ReactInsert, At, Fits, Pair
  <2>2. FeedbackTypeOK' /\ BaseTypeOK'
    BY <1>1, <1>4, <2>1 DEF ReactInsert, TablesOK, FeedbackTypeOK, BaseTypeOK
  <2>3. QED BY <1>2, <2>2 DEF TablesOK
<1>5. CASE CreateReport(p)
  <2>1. [post |-> req[p].post, status |-> "open"] \in ReportRow
    BY <1>1, <1>5 DEF CreateReport, At, Fits, ReportRow
  <2>2. FeedbackTypeOK' /\ BaseTypeOK'
    BY <1>1, <1>5, <2>1 DEF CreateReport, TablesOK, FeedbackTypeOK, BaseTypeOK
  <2>3. QED BY <1>2, <2>2 DEF TablesOK
<1>6. CASE ReviewRemove(p)
  <2>1. posts' \in [PostIds -> PostRow \cup {None}]
    BY <1>6, RemovePostType DEF ReviewRemove
  <2>2. FeedbackTypeOK' /\ BaseTypeOK'
    BY <1>1, <1>6, <2>1 DEF ReviewRemove, TablesOK, FeedbackTypeOK, BaseTypeOK
  <2>3. QED BY <1>2, <2>2 DEF TablesOK
<1>7. CASE ReviewReport(p)
  <2>1. req[p].verdict \in Verdicts
    BY <1>1, <1>7 DEF ReviewReport, At, Fits
  <2>2. \A k \in Reports : [reports[k] EXCEPT !.status = req[p].verdict] \in ReportRow
    BY <1>1, <2>1 DEF TablesOK, FeedbackTypeOK, Reports, ReportRow
  <2>3. FeedbackTypeOK' /\ BaseTypeOK'
    BY <1>1, <1>7, <2>2 DEF ReviewReport, TablesOK, FeedbackTypeOK, BaseTypeOK
  <2>4. QED BY <1>2, <2>3 DEF TablesOK
<1>8. QED BY <1>3, <1>4, <1>5, <1>6, <1>7 DEF FeedbackWrites

LEMMA FollowingTables ==
    ASSUME TypeInv, NEW p \in Procs, FollowingWrites(p), UNCHANGED <<feedbackVars, messageVars>>
    PROVE  TablesOK'
<1>1. TablesOK /\ req[p] \in Request(PCs) /\ Fits(req[p])
  BY DEF TypeInv, TypeOK, TablesOK, BaseTypeOK
<1>2. FeedbackTypeOK' /\ MessagesTypeOK'
  BY <1>1 DEF TablesOK, FeedbackTypeOK, MessagesTypeOK, feedbackVars, messageVars
<1>3. req[p].at \in Times
  BY <1>1, RequestFields
<1>4. CASE CreateThread(p)
  <2>1. [last |-> clock] \in ThreadRow
    BY <1>1 DEF ThreadRow, TablesOK, BaseTypeOK
  <2>2. FollowingTypeOK' /\ BaseTypeOK'
    BY <1>1, <1>4, <2>1 DEF CreateThread, TablesOK, FollowingTypeOK, BaseTypeOK
  <2>3. QED BY <1>2, <2>2 DEF TablesOK
<1>5. CASE CreatePost(p)
  <2>1. req[p].user \in Users /\ req[p].thread \in ThreadIds
    BY <1>1, <1>5 DEF CreatePost, Fits
  <2>2. PICK i \in PostIds : /\ InsertPost(i, req[p].thread, req[p].user, req[p].at)
                             /\ settled' = settled \cup Unannounced(p) \X {i}
    BY <1>5 DEF CreatePost
  <2>3. posts' \in [PostIds -> PostRow \cup {None}]
    BY <1>3, <2>1, <2>2, InsertPostType
  <2>4. Unannounced(p) \subseteq Users
    BY DEF Unannounced
  <2>5. settled' \subseteq Users \X PostIds
    BY <1>1, <2>2, <2>4 DEF TablesOK, FollowingTypeOK
  <2>6. UNCHANGED <<threads, clock, kinds, marks, drafts, posted>>
    BY <1>5 DEF CreatePost
  <2>7. FollowingTypeOK' /\ BaseTypeOK'
    BY <1>1, <2>3, <2>5, <2>6 DEF TablesOK, FollowingTypeOK, BaseTypeOK
  <2>8. QED BY <1>2, <2>7 DEF TablesOK
<1>6. CASE UpdateLastPost(p)
  <2>1. \A t \in Threads : [threads[t] EXCEPT !.last = req[p].at] \in ThreadRow
    BY <1>1, <1>3 DEF Threads, ThreadRow, TablesOK, BaseTypeOK
  <2>2. threads' \in [ThreadIds -> ThreadRow \cup {None}]
    BY <1>1, <1>6, <2>1 DEF UpdateLastPost, TablesOK, BaseTypeOK
  <2>3. settled' \subseteq Users \X PostIds
    BY <1>1, <1>6 DEF UpdateLastPost, TablesOK, FollowingTypeOK, PostsOf, Posts
  <2>4. UNCHANGED <<posts, clock, kinds, marks, drafts, posted>>
    BY <1>6 DEF UpdateLastPost
  <2>5. FollowingTypeOK' /\ BaseTypeOK'
    BY <1>1, <2>2, <2>3, <2>4 DEF TablesOK, FollowingTypeOK, BaseTypeOK
  <2>6. QED BY <1>2, <2>5 DEF TablesOK
<1>7. CASE GetDraftByThread(p)
  <2>1. req[p].user \in Users /\ req[p].thread \in ThreadIds
    BY <1>1, <1>7 DEF GetDraftByThread, At, Fits
  <2>2. posted' \subseteq Users \X ThreadIds
    BY <1>1, <1>7, <2>1 DEF GetDraftByThread, TablesOK, FollowingTypeOK
  <2>3. UNCHANGED <<threads, posts, clock, kinds, marks, drafts, settled>>
    BY <1>7 DEF GetDraftByThread
  <2>4. FollowingTypeOK' /\ BaseTypeOK'
    BY <1>1, <2>2, <2>3 DEF TablesOK, FollowingTypeOK, BaseTypeOK
  <2>5. QED BY <1>2, <2>4 DEF TablesOK
<1>8. CASE DeleteDraft(p) \/ CreatePostFails(p)
  <2>1. drafts' \in [RowIds -> DraftRow \cup {None}]
    BY <1>1, <1>8 DEF DeleteDraft, CreatePostFails, Without, TablesOK, FollowingTypeOK
  <2>2. UNCHANGED <<threads, posts, clock, kinds, marks, settled, posted>>
    BY <1>8 DEF DeleteDraft, CreatePostFails
  <2>3. FollowingTypeOK' /\ BaseTypeOK'
    BY <1>1, <2>1, <2>2 DEF TablesOK, FollowingTypeOK, BaseTypeOK
  <2>4. QED BY <1>2, <2>3 DEF TablesOK
<1>9. CASE MarkThreadRead(p)
  <2>1. req[p].user \in Users
    BY <1>1, <1>9 DEF MarkThreadRead, At, Fits
  <2>2. marks' \in [Users -> [ThreadIds -> Times \cup {None}]]
    <3>1. marks[req[p].user] \in [ThreadIds -> Times \cup {None}]
      BY <1>1, <2>1 DEF TablesOK, FollowingTypeOK
    <3>2. [marks[req[p].user] EXCEPT ![req[p].thread] = req[p].at]
            \in [ThreadIds -> Times \cup {None}]
      BY <1>3, <3>1
    <3>3. QED BY <1>1, <1>9, <2>1, <3>2 DEF MarkThreadRead, TablesOK, FollowingTypeOK
  <2>3. UNCHANGED <<threads, posts, clock, kinds, drafts, settled, posted>>
    BY <1>9 DEF MarkThreadRead
  <2>4. FollowingTypeOK' /\ BaseTypeOK'
    BY <1>1, <2>2, <2>3 DEF TablesOK, FollowingTypeOK, BaseTypeOK
  <2>5. QED BY <1>2, <2>4 DEF TablesOK
<1>10. CASE ListPosts(p)
  <2>1. req[p].user \in Users
    BY <1>1, <1>10 DEF ListPosts, At, Fits
  <2>2. FollowingTypeOK' /\ BaseTypeOK'
    BY <1>1, <1>10, <2>1 DEF ListPosts, TablesOK, FollowingTypeOK, BaseTypeOK, PostsOf, Posts
  <2>3. QED BY <1>2, <2>2 DEF TablesOK
<1>11. CASE SaveDraft(p)
  <2>1. PICK u \in Users, t \in ThreadIds \cup {None} :
          UpsertDraft(u, t) /\ posted' = posted \ {<<u, t>>}
    BY <1>11 DEF SaveDraft
  <2>2. [user |-> u, thread |-> t] \in DraftRow
    BY <2>1 DEF DraftRow, Threads
  <2>3. drafts' \in [RowIds -> DraftRow \cup {None}]
    BY <1>1, <2>1, <2>2 DEF UpsertDraft, TablesOK, FollowingTypeOK
  <2>4. UNCHANGED <<threads, posts, clock, kinds, marks, settled>>
    BY <1>11 DEF SaveDraft
  <2>5. FollowingTypeOK' /\ BaseTypeOK'
    BY <1>1, <2>1, <2>3, <2>4 DEF TablesOK, FollowingTypeOK, BaseTypeOK
  <2>6. QED BY <1>2, <2>5 DEF TablesOK
<1>12. QED BY <1>4, <1>5, <1>6, <1>7, <1>8, <1>9, <1>10, <1>11 DEF FollowingWrites

LEMMA MessageTables ==
    ASSUME TypeInv, NEW p \in Procs, MessageWrites(p), UNCHANGED <<feedbackVars, followingVars>>
    PROVE  TablesOK'
<1>1. TablesOK /\ req[p] \in Request(PCs) /\ Fits(req[p])
  BY DEF TypeInv, TypeOK, TablesOK, BaseTypeOK
<1>2. FeedbackTypeOK' /\ FollowingTypeOK'
  BY <1>1 DEF TablesOK, FeedbackTypeOK, FollowingTypeOK, feedbackVars, followingVars
<1>3. BaseTypeOK'
  BY <1>1 DEF MessageWrites, SendMessage, ViewMessage, MarkPMRead, Hide, TablesOK, BaseTypeOK
<1>4. CASE SendMessage(p)
  <2>1. PICK u \in Users, to \in Users : CreatePM(u, to)
    BY <1>4 DEF SendMessage
  <2>2. [sender |-> u, recipient |-> to, read |-> FALSE, senderDeleted |-> FALSE,
         recipientDeleted |-> FALSE] \in MessageRow
    BY DEF MessageRow
  <2>3. MessagesTypeOK'
    BY <1>1, <1>4, <2>1, <2>2 DEF SendMessage, CreatePM, TablesOK, MessagesTypeOK
  <2>4. QED BY <1>2, <1>3, <2>3 DEF TablesOK
<1>5. CASE ViewMessage(p)
  <2>1. MessagesTypeOK'
    BY <1>1, <1>5 DEF ViewMessage, TablesOK, MessagesTypeOK, Sent
  <2>2. QED BY <1>2, <1>3, <2>1 DEF TablesOK
<1>6. CASE MarkPMRead(p) \/ Hide(p)
  <2>1. req[p].row \in RowIds /\ req[p].user \in Users
    BY <1>1, <1>6 DEF MarkPMRead, Hide, At, Fits
  <2>2. PICK row : row = messages[req[p].row]
    OBVIOUS
  <2>3. row \in MessageRow
    BY <1>1, <1>6, <2>1, <2>2 DEF MarkPMRead, Hide, At, TypeInv, TypeOK, Kept, Sent,
                                  MessagesTypeOK
  <2>4. /\ [row EXCEPT !.read = TRUE] \in MessageRow
        /\ [row EXCEPT !.senderDeleted = TRUE] \in MessageRow
        /\ [row EXCEPT !.recipientDeleted = TRUE] \in MessageRow
    BY <2>3 DEF MessageRow
  <2>5. \E new \in MessageRow : messages' = [messages EXCEPT ![req[p].row] = new]
    BY <1>6, <2>2, <2>4 DEF MarkPMRead, Hide, DeletePMForSender, DeletePMForRecipient
  <2>6. messages' \in [RowIds -> MessageRow \cup {None}]
    BY <1>1, <2>5 DEF TablesOK, MessagesTypeOK
  <2>7. dealt' \subseteq {"open", "delete"} \X Users \X RowIds
    BY <1>1, <1>6, <2>1 DEF MarkPMRead, Hide, TablesOK, MessagesTypeOK
  <2>8. QED BY <1>2, <1>3, <2>6, <2>7 DEF TablesOK, MessagesTypeOK
<1>7. QED BY <1>4, <1>5, <1>6 DEF MessageWrites

LEMMA CascadeTables ==
    ASSUME TypeInv, NEW p \in Procs, DeleteAll(p), UNCHANGED messageVars
    PROVE  TablesOK'
<1>1. TablesOK
  BY DEF TypeInv, TypeOK, TablesOK, BaseTypeOK
<1>2. MessagesTypeOK'
  BY <1>1 DEF TablesOK, MessagesTypeOK, messageVars
<1>3. BaseTypeOK'
  BY <1>1 DEF DeleteAll, DeleteThread, Without, TablesOK, BaseTypeOK
<1>4. FeedbackTypeOK'
  BY <1>1 DEF DeleteAll, CascadeFeedback, Without, TablesOK, FeedbackTypeOK
<1>5. FollowingTypeOK'
  <2>1. marks' \in [Users -> [ThreadIds -> Times \cup {None}]]
    BY <1>1 DEF DeleteAll, CascadeFollowing, TablesOK, FollowingTypeOK
  <2>2. drafts' \in [RowIds -> DraftRow \cup {None}]
    BY <1>1 DEF DeleteAll, CascadeFollowing, Without, TablesOK, FollowingTypeOK
  <2>3. settled' \subseteq settled /\ posted' \subseteq posted
    BY DEF DeleteAll, CascadeFollowing
  <2>4. QED BY <1>1, <2>1, <2>2, <2>3 DEF TablesOK, FollowingTypeOK
<1>6. QED BY <1>2, <1>3, <1>4, <1>5 DEF TablesOK

\* What a request that goes on without its statement leaves undone.
LEMMA UndoneTables ==
    ASSUME TypeInv, NEW p \in Procs, LogAndGoOn(p) \/ Abort(p)
    PROVE  /\ TablesOK'
           /\ UNCHANGED <<threads, posts, lost, clock, kinds, feedbackVars, marks, drafts,
                          messageVars>>
           /\ settled \subseteq settled' /\ posted' \subseteq posted
<1>1. TablesOK /\ req[p] \in Request(PCs) /\ Fits(req[p])
  BY DEF TypeInv, TypeOK, TablesOK, BaseTypeOK
<1>2. Undone(p) /\ UNCHANGED <<threads, posts, lost, clock, kinds, feedbackVars, messageVars>>
  BY DEF LogAndGoOn, Abort
<1>3. /\ settled \subseteq settled' /\ settled' \subseteq Users \X PostIds
      /\ posted' \subseteq posted /\ UNCHANGED <<marks, drafts>>
  <2>1. UNCHANGED <<marks, drafts>> /\ posted' \subseteq posted
    BY <1>2 DEF Undone
  <2>2. CASE At(p, "lastPost")
    <3>1. settled' = settled \cup Users \X {req[p].post}
      BY <1>2, <2>2 DEF Undone, At
    <3>2. req[p].post \in PostIds
      BY <1>1, <2>2 DEF At, Fits
    <3>3. QED BY <1>1, <2>1, <3>1, <3>2 DEF TablesOK, FollowingTypeOK
  <2>3. CASE At(p, "viewList")
    <3>1. settled' = settled \cup {req[p].user} \X PostsOf(req[p].thread)
      BY <1>2, <2>3 DEF Undone, At
    <3>2. req[p].user \in Users /\ PostsOf(req[p].thread) \subseteq PostIds
      BY <1>1, <2>3 DEF At, Fits, PostsOf, Posts
    <3>3. QED BY <1>1, <2>1, <3>1, <3>2 DEF TablesOK, FollowingTypeOK
  <2>4. CASE ~At(p, "lastPost") /\ ~At(p, "viewList")
    <3>1. settled' = settled
      BY <1>2, <2>4 DEF Undone, At
    <3>2. QED BY <1>1, <2>1, <3>1 DEF TablesOK, FollowingTypeOK
  <2>5. QED BY <2>2, <2>3, <2>4
<1>4. TablesOK'
  BY <1>1, <1>2, <1>3 DEF TablesOK, BaseTypeOK, FeedbackTypeOK, FollowingTypeOK, MessagesTypeOK,
                          feedbackVars, messageVars
<1>5. QED BY <1>2, <1>3, <1>4

LEMMA TablesStep ==
    ASSUME TypeInv, Next
    PROVE  TablesOK'
<1>1. TablesOK
  BY DEF TypeInv, TypeOK, TablesOK, BaseTypeOK
<1>2. CASE UNCHANGED <<threads, posts, lost, clock, kinds, feedbackVars, followingVars,
                       messageVars>>
  BY <1>1, <1>2 DEF TablesOK, BaseTypeOK, FeedbackTypeOK, FollowingTypeOK, MessagesTypeOK,
                    feedbackVars, followingVars, messageVars
<1>3. ASSUME NEW p \in Procs, DeletePost(p),
             UNCHANGED <<feedbackVars, followingVars, messageVars>>
      PROVE  TablesOK'
  <2>1. posts' \in [PostIds -> PostRow \cup {None}]
    BY <1>3, RemovePostType DEF DeletePost
  <2>2. UNCHANGED <<threads, clock, kinds>>
    BY <1>3 DEF DeletePost
  <2>3. QED BY <1>1, <1>3, <2>1, <2>2 DEF TablesOK, BaseTypeOK, FeedbackTypeOK,
          FollowingTypeOK, MessagesTypeOK, feedbackVars, followingVars, messageVars
<1>4. CASE Tick /\ UNCHANGED <<feedbackVars, followingVars, messageVars>>
  <2>1. clock' \in Times
    BY <1>1, <1>4, RequestsOK DEF Tick, TablesOK, BaseTypeOK, Times
  <2>2. UNCHANGED <<threads, posts, kinds>>
    BY <1>4 DEF Tick
  <2>3. QED BY <1>1, <1>4, <2>1, <2>2 DEF TablesOK, BaseTypeOK, FeedbackTypeOK,
          FollowingTypeOK, MessagesTypeOK, feedbackVars, followingVars, messageVars
<1>5. CASE CleanupOldDrafts /\ UNCHANGED <<feedbackVars, messageVars>>
  <2>1. drafts' \in [RowIds -> DraftRow \cup {None}]
    BY <1>1, <1>5 DEF CleanupOldDrafts, Without, TablesOK, FollowingTypeOK
  <2>2. UNCHANGED <<threads, posts, clock, kinds, marks, settled, posted>>
    BY <1>5 DEF CleanupOldDrafts
  <2>3. QED BY <1>1, <1>5, <2>1, <2>2 DEF TablesOK, BaseTypeOK, FeedbackTypeOK,
          FollowingTypeOK, MessagesTypeOK, feedbackVars, messageVars
<1>6. ASSUME NEW p \in Procs, DeleteThreadAlone(p),
             UNCHANGED <<feedbackVars, followingVars, messageVars>>
      PROVE  TablesOK'
  <2>1. threads' \in [ThreadIds -> ThreadRow \cup {None}]
    BY <1>1, <1>6 DEF DeleteThreadAlone, Without, TablesOK, BaseTypeOK
  <2>2. UNCHANGED <<posts, clock, kinds>>
    BY <1>6 DEF DeleteThreadAlone
  <2>3. QED BY <1>1, <1>6, <2>1, <2>2 DEF TablesOK, BaseTypeOK, FeedbackTypeOK,
          FollowingTypeOK, MessagesTypeOK, feedbackVars, followingVars, messageVars
<1>7. QED BY <1>2, <1>3, <1>4, <1>5, <1>6, FeedbackTables, FollowingTables, MessageTables,
             CascadeTables, UndoneTables, NextCases

\* What may be lost.
LostRows == {"thread"} \X ThreadIds \cup {"post"} \X PostIds

\* Nothing that is lost is found again.
LEMMA LostStep ==
    ASSUME TypeInv, Next
    PROVE  lost \subseteq lost' /\ lost' \subseteq LostRows
<1>1. lost \subseteq LostRows
  BY DEF TypeInv, TypeOK, LostRows
<1>2. ASSUME NEW missing \in SUBSET LostRows, Leaving(missing) \/ Refused(missing)
      PROVE  lost \subseteq lost' /\ lost' \subseteq LostRows
  BY <1>1, <1>2 DEF Leaving, Refused
<1>3. CASE UNCHANGED lost
  BY <1>1, <1>3
<1>4. ASSUME NEW p \in Procs
      PROVE  /\ req[p] \in Request(PCs) /\ Fits(req[p])
             /\ req[p].thread \in ThreadIds => NoThread(req[p].thread) \subseteq LostRows
             /\ req[p].post \in PostIds => NoPost(req[p].post) \subseteq LostRows
  BY DEF TypeInv, TypeOK, NoThread, NoPost, LostRows
<1>5. ASSUME NEW p \in Procs, FeedbackWrites(p)
      PROVE  lost \subseteq lost' /\ lost' \subseteq LostRows
  <2>1. CASE ReactInsert(p) \/ CreateReport(p)
    <3>1. req[p].post \in PostIds
      BY <1>4, <2>1 DEF ReactInsert, CreateReport, At, Fits
    <3>2. Leaving(NoPost(req[p].post)) \/ Refused(NoPost(req[p].post)) \/ UNCHANGED lost
      BY <2>1 DEF ReactInsert, CreateReport
    <3>3. QED BY <1>2, <1>3, <1>4, <3>1, <3>2
  <2>2. QED BY <1>3, <1>5, <2>1 DEF FeedbackWrites, ReactDelete, ReviewRemove, ReviewReport
<1>6. ASSUME NEW p \in Procs, FollowingWrites(p)
      PROVE  lost \subseteq lost' /\ lost' \subseteq LostRows
  <2>1. CASE CreatePost(p) \/ CreatePostFails(p) \/ MarkThreadRead(p)
    <3>1. req[p].thread \in ThreadIds
      BY <1>4, <2>1 DEF CreatePost, CreatePostFails, MarkThreadRead, At, Fits
    <3>2. Unmarked(p) \subseteq NoThread(req[p].thread)
      BY DEF Unmarked
    <3>3. PICK missing \in {NoThread(req[p].thread), Unmarked(p)} :
            Leaving(missing) \/ Refused(missing) \/ UNCHANGED lost
      BY <2>1 DEF CreatePost, CreatePostFails, MarkThreadRead, InsertPost
    <3>4. QED BY <1>2, <1>3, <1>4, <3>1, <3>2, <3>3
  <2>2. CASE SaveDraft(p)
    <3>1. PICK u \in Users, t \in ThreadIds \cup {None} : UpsertDraft(u, t)
      BY <2>2 DEF SaveDraft
    <3>2. PICK missing : missing = {row \in NoThread(t) : t # None}
      OBVIOUS
    <3>3. missing \subseteq LostRows
      BY <3>1, <3>2 DEF NoThread, LostRows
    <3>4. Leaving(missing) \/ UNCHANGED lost
      BY <3>1, <3>2 DEF UpsertDraft
    <3>5. QED BY <1>2, <1>3, <3>3, <3>4
  <2>3. QED BY <1>3, <1>6, <2>1, <2>2 DEF FollowingWrites, CreateThread, UpdateLastPost,
          GetDraftByThread, DeleteDraft, ListPosts
<1>7. ASSUME NEW p \in Procs, DeleteThreadAlone(p)
      PROVE  lost \subseteq lost' /\ lost' \subseteq LostRows
  <2>1. req[p].thread \in ThreadIds
    BY <1>4, <1>7 DEF DeleteThreadAlone, At, Fits
  <2>2. lost' = lost \cup {"thread"} \X ({req[p].thread} \cap Threads)
    BY <1>7 DEF DeleteThreadAlone
  <2>3. QED BY <1>1, <2>1, <2>2 DEF LostRows
<1>8. ASSUME NEW p \in Procs,
             MessageWrites(p) \/ DeletePost(p) \/ DeleteAll(p) \/ LogAndGoOn(p) \/ Abort(p)
      PROVE  UNCHANGED lost
  BY <1>8 DEF MessageWrites, SendMessage, ViewMessage, MarkPMRead, Hide, DeletePost, DeleteAll,
              DeleteThread, LogAndGoOn, Abort
<1>9. QED BY <1>3, <1>5, <1>6, <1>7, <1>8, NextCases DEF Tick, CleanupOldDrafts

\* Messages stay, and their senders and recipients.
LEMMA SentGrows ==
    ASSUME TypeInv, Next
    PROVE  \A m \in Sent : /\ m \in Sent' /\ messages'[m].sender = messages[m].sender
                           /\ messages'[m].recipient = messages[m].recipient
<1>1. messages \in [RowIds -> MessageRow \cup {None}] /\ Sent \subseteq RowIds
  BY DEF TypeInv, TypeOK, MessagesTypeOK, Sent
<1>2. CASE UNCHANGED messages
  BY <1>2 DEF Sent
<1>3. ASSUME NEW p \in Procs, SendMessage(p)
      PROVE  \A m \in Sent : m \in Sent' /\ messages'[m] = messages[m]
  <2>0. PICK row : \E k \in RowIds :
                     NextKey(Sent, k) /\ messages' = [messages EXCEPT ![k] = row]
    BY <1>3 DEF SendMessage, CreatePM
  <2>1. PICK k \in RowIds : NextKey(Sent, k) /\ messages' = [messages EXCEPT ![k] = row]
    BY <2>0
  <2>2. k \notin Sent
    BY <1>1, <2>1 DEF NextKey, RowIds
  <2>3. QED BY <1>1, <2>1, <2>2 DEF Sent
<1>4. ASSUME NEW p \in Procs, MarkPMRead(p) \/ Hide(p)
      PROVE  \A m \in Sent : /\ m \in Sent' /\ messages'[m].sender = messages[m].sender
                             /\ messages'[m].recipient = messages[m].recipient
  <2>1. PICK k : k = req[p].row
    OBVIOUS
  <2>2. k \in Sent
    BY <1>4, <2>1 DEF MarkPMRead, Hide, At, TypeInv, Kept
  <2>3. \A m \in Sent : messages[m] \in MessageRow /\ messages[m] # None
    BY <1>1 DEF Sent
  <2>4. \E new \in MessageRow :
          /\ messages' = [messages EXCEPT ![k] = new]
          /\ new.sender = messages[k].sender /\ new.recipient = messages[k].recipient
    <3>1. PICK row : row = messages[k]
      OBVIOUS
    <3>2. row \in MessageRow
      BY <2>2, <2>3, <3>1
    <3>3. /\ [row EXCEPT !.read = TRUE] \in MessageRow
          /\ [row EXCEPT !.senderDeleted = TRUE] \in MessageRow
          /\ [row EXCEPT !.recipientDeleted = TRUE] \in MessageRow
      BY <3>2 DEF MessageRow
    <3>4. \/ messages' = [messages EXCEPT ![k] = [row EXCEPT !.read = TRUE]]
          \/ messages' = [messages EXCEPT ![k] = [row EXCEPT !.senderDeleted = TRUE]]
          \/ messages' = [messages EXCEPT ![k] = [row EXCEPT !.recipientDeleted = TRUE]]
      BY <1>4, <2>1, <3>1 DEF MarkPMRead, Hide, DeletePMForSender, DeletePMForRecipient
    <3>5. \A new : \/ new = [row EXCEPT !.read = TRUE]
                   \/ new = [row EXCEPT !.senderDeleted = TRUE]
                   \/ new = [row EXCEPT !.recipientDeleted = TRUE]
                   => new.sender = row.sender /\ new.recipient = row.recipient
      BY <3>2 DEF MessageRow
    <3>6. QED BY <3>1, <3>3, <3>4, <3>5
  <2>5. PICK new \in MessageRow :
          /\ messages' = [messages EXCEPT ![k] = new]
          /\ new.sender = messages[k].sender /\ new.recipient = messages[k].recipient
    BY <2>4
  <2>6. new # None
    BY MembersOK
  <2>7. QED BY <1>1, <2>2, <2>5, <2>6 DEF Sent
<1>5. UNCHANGED messages \/ \E p \in Procs : SendMessage(p) \/ MarkPMRead(p) \/ Hide(p)
  <2>1. \A p \in Procs : ViewMessage(p) => UNCHANGED messages
    BY DEF ViewMessage
  <2>2. \A p \in Procs : LogAndGoOn(p) \/ Abort(p) => UNCHANGED messages
    BY DEF LogAndGoOn, Abort, messageVars
  <2>3. QED BY <2>1, <2>2, NextCases DEF MessageWrites, messageVars
<1>6. QED BY <1>2, <1>3, <1>4, <1>5

LEMMA TypeStep ==
    ASSUME TypeInv, [Next]_vars
    PROVE  TypeInv'
<1>1. CASE UNCHANGED vars
  BY <1>1 DEF vars, baseVars, feedbackVars, followingVars, messageVars, TypeInv, TypeOK,
              FeedbackTypeOK, FollowingTypeOK, MessagesTypeOK, Fits, Kept, Sent
<1>2. ASSUME Next
      PROVE  TypeInv'
  <2>1. TablesOK' /\ Sent \subseteq Sent' /\ lost' \subseteq LostRows
    BY <1>2, TablesStep, SentGrows, LostStep
  <2>2. \A q \in Procs : Kept(req[q])
    BY DEF TypeInv
  <2>3. ASSUME NEW p \in Procs, NEW r \in Request(PCs), Fits(r), req' = [req EXCEPT ![p] = r],
               Kept(r)
        PROVE  TypeInv'
    <3>1. /\ req' \in [Procs -> Request(PCs)] /\ \A q \in Procs : Fits(req'[q])
          /\ req'[p] = r /\ \A q \in Procs \ {p} : req'[q] = req[q]
      BY <2>3, RequestStep
    <3>2. \A q \in Procs : Kept(req[q])'
      BY <2>1, <2>2, <2>3, <3>1 DEF Kept
    <3>3. QED BY <2>1, <3>1, <3>2 DEF TypeInv, TypeOK, TablesOK, BaseTypeOK, LostRows, Fits
  <2>4. ASSUME NEW p \in Procs, Reads(p)
        PROVE  TypeInv'
    <3>1. PICK r \in Request(PCs) : Fits(r) /\ req' = [req EXCEPT ![p] = r] /\ Begins(r)
      BY <2>4, StartStep
    <3>2. Kept(r)
      BY <3>1 DEF Kept, Begins
    <3>3. QED BY <2>3, <3>1, <3>2
  <2>5. ASSUME NEW p \in Procs, Writes(p)
        PROVE  TypeInv'
    <3>1. PICK r \in Request(PCs) : /\ Fits(r) /\ req' = [req EXCEPT ![p] = r]
                                    /\ Moves(req[p], r)
      BY <2>5, WriteStep
    <3>2. Kept(r)
      <4>1. req[p] \in Request(PCs) /\ Kept(req[p])
        BY <2>2 DEF TypeInv, TypeOK
      <4>2. r = req[p] \/ r.pc \notin {"markRead", "hide"} \/ r.row \in Sent
        BY <3>1, <4>1, MovesFields DEF NoRequest
      <4>3. QED BY <4>1, <4>2 DEF Kept
    <3>3. QED BY <2>3, <3>1, <3>2
  <2>6. CASE UNCHANGED req
    <3>1. \A q \in Procs : Kept(req[q])'
      BY <2>1, <2>2, <2>6 DEF Kept
    <3>2. QED BY <2>1, <2>6, <3>1 DEF TypeInv, TypeOK, TablesOK, BaseTypeOK, LostRows, Fits
  <2>7. (\E p \in Procs : Reads(p) \/ Writes(p)) \/ UNCHANGED req
    BY <1>2, NextCases DEF Writes, DeleteAll, Tick, CleanupOldDrafts
  <2>8. QED BY <2>4, <2>5, <2>6, <2>7
<1>3. QED BY <1>1, <1>2

LEMMA TypeInvHolds == Spec => []TypeInv
<1>1. Init => TypeInv
  <2>1. SUFFICES ASSUME Init PROVE TypeInv
    OBVIOUS
  <2>2. clock \in Times /\ kinds \in KindSets
    BY <2>1, RequestsOK DEF Init, BaseInit, Times
  <2>3. req \in [Procs -> Request(PCs)] /\ \A p \in Procs : Fits(req[p]) /\ req[p] = NoRequest
    BY <2>1, NoRequestType DEF Init, BaseInit
  <2>4. threads \in [ThreadIds -> ThreadRow \cup {None}]
        /\ posts \in [PostIds -> PostRow \cup {None}] /\ lost = {}
    BY <2>1 DEF Init, BaseInit
  <2>5. FeedbackTypeOK /\ FollowingTypeOK /\ MessagesTypeOK
    BY <2>1 DEF Init, FeedbackInit, FollowingInit, MessagesInit, FeedbackTypeOK, FollowingTypeOK,
           MessagesTypeOK
  <2>6. \A p \in Procs : Kept(req[p])
    BY <2>3 DEF Kept, NoRequest
  <2>7. QED BY <2>2, <2>3, <2>4, <2>5, <2>6 DEF TypeInv, TypeOK
<1>2. TypeInv /\ [Next]_vars => TypeInv'
  BY TypeStep
<1>3. QED BY <1>1, <1>2, PTL DEF Spec

\* Every table and every request in flight keeps its type.
THEOREM TypeCorrect == Spec => []TypeOK
<1>1. TypeInv => TypeOK
  BY DEF TypeInv
<1>2. QED BY <1>1, TypeInvHolds, PTL

-----------------------------------------------------------------------------
(* Nothing is left behind.                                                 *)

\* The thread or post is there, or lost.
ThreadKnown(t) == t \in Threads \/ <<"thread", t>> \in lost
PostKnown(i) == i \in Posts \/ <<"post", i>> \in lost

\* What becomes of each table as long as no thread goes.
PostsIn == \A i \in Posts : ThreadKnown(posts[i].thread)
ReactionsIn == \A pair \in reactions : PostKnown(pair[1])
ReportsIn == \A k \in Reports : PostKnown(reports[k].post)
MarksIn == \A u \in Users, t \in ThreadIds : marks[u][t] # None => ThreadKnown(t)
DraftsIn == \A d \in Drafts : drafts[d].thread # None => ThreadKnown(drafts[d].thread)

LEMMA Known ==
    /\ \A t : NoThread(t) \subseteq lost <=> ThreadKnown(t)
    /\ \A i : NoPost(i) \subseteq lost <=> PostKnown(i)
<1>1. ASSUME NEW t
      PROVE  NoThread(t) \subseteq lost <=> ThreadKnown(t)
  BY DEF NoThread, ThreadKnown
<1>2. ASSUME NEW i
      PROVE  NoPost(i) \subseteq lost <=> PostKnown(i)
  BY DEF NoPost, PostKnown
<1>3. QED BY <1>1, <1>2

LEMMA LeftParts ==
    /\ NothingLeftBehind <=> PostsIn /\ ReactionsIn /\ ReportsIn /\ MarksIn /\ DraftsIn
    /\ (NothingLeftBehind <=> PostsIn /\ ReactionsIn /\ ReportsIn /\ MarksIn /\ DraftsIn)'
<1>1. NothingLeftBehind <=> PostsIn /\ ReactionsIn /\ ReportsIn /\ MarksIn /\ DraftsIn
  BY Known DEF NothingLeftBehind, PostsIn, ReactionsIn, ReportsIn, MarksIn, DraftsIn
<1>2. QED BY <1>1, PTL

\* A table that does not change, while threads and posts may come.
LEMMA LeftStays ==
    ASSUME NothingLeftBehind, Threads \subseteq Threads', Posts \subseteq Posts',
           lost \subseteq lost'
    PROVE  /\ UNCHANGED posts => PostsIn'
           /\ UNCHANGED reactions => ReactionsIn'
           /\ UNCHANGED reports => ReportsIn'
           /\ UNCHANGED marks => MarksIn'
           /\ UNCHANGED drafts => DraftsIn'
BY LeftParts DEF PostsIn, ReactionsIn, ReportsIn, MarksIn, DraftsIn, ThreadKnown, PostKnown,
                 Posts, Reports, Drafts

\* A post that is marked as removed stays where it is.
LEMMA RemovedStays ==
    ASSUME TypeInv, NEW i, RemovePost(i)
    PROVE  /\ Posts' = Posts
           /\ \A j \in Posts : /\ posts'[j].thread = posts[j].thread
                               /\ posts'[j].stamp = posts[j].stamp
                               /\ posts[j].removed \/ j = i => posts'[j].removed
<1>1. /\ posts \in [PostIds -> PostRow \cup {None}] /\ Posts \subseteq PostIds
      /\ None \notin PostRow
  BY RequestsOK DEF TypeInv, TypeOK, Posts
<1>2. ASSUME NEW j \in Posts
      PROVE  /\ posts'[j] # None /\ posts'[j].thread = posts[j].thread
             /\ posts'[j].stamp = posts[j].stamp
             /\ posts[j].removed \/ j = i => posts'[j].removed
  <2>1. PICK row : row = posts[j]
    OBVIOUS
  <2>2. row \in PostRow
    BY <1>1, <2>1 DEF Posts
  <2>3. PICK gone : gone = [row EXCEPT !.removed = TRUE]
    OBVIOUS
  <2>4. gone \in PostRow /\ gone.thread = row.thread /\ gone.stamp = row.stamp /\ gone.removed
    BY <2>2, <2>3 DEF PostRow
  <2>5. posts'[j] = IF j = i THEN gone ELSE row
    BY <1>1, <2>1, <2>3 DEF RemovePost
  <2>6. QED BY <1>1, <2>1, <2>2, <2>4, <2>5
<1>3. \A j \in PostIds \ Posts : posts'[j] = None
  BY <1>1 DEF RemovePost, Posts
<1>4. Posts' = Posts
  BY <1>1, <1>2, <1>3 DEF Posts
<1>5. QED BY <1>2, <1>4

LEMMA LeftPosts ==
    ASSUME TypeInv, NothingLeftBehind, NEW i, RemovePost(i),
           UNCHANGED <<threads, lost, reactions, reports, marks, drafts>>
    PROVE  NothingLeftBehind'
<1>1. Threads' = Threads /\ Posts' = Posts
  BY RemovedStays DEF Threads
<1>2. PostsIn'
  BY <1>1, RemovedStays, LeftParts DEF PostsIn, ThreadKnown
<1>3. QED BY <1>1, <1>2, LeftStays, LeftParts

LEMMA LeftFeedback ==
    ASSUME TypeInv, NothingLeftBehind, NEW p \in Procs, FeedbackWrites(p),
           UNCHANGED <<followingVars, messageVars>>, lost \subseteq lost'
    PROVE  NothingLeftBehind'
<1>1. reports \in [RowIds -> ReportRow \cup {None}] /\ UNCHANGED <<marks, drafts>>
  BY DEF TypeInv, TypeOK, FeedbackTypeOK, followingVars
<1>2. CASE ReviewRemove(p)
  BY <1>1, <1>2, LeftPosts DEF ReviewRemove
<1>3. ASSUME ~ReviewRemove(p)
      PROVE  NothingLeftBehind'
  <2>1. UNCHANGED <<threads, posts>>
    BY <1>3 DEF FeedbackWrites, ReactDelete, ReactInsert, CreateReport, ReviewReport
  <2>2. Threads' = Threads /\ Posts' = Posts
    BY <2>1 DEF Threads, Posts
  <2>3. ReactionsIn'
    <3>1. CASE ReactDelete(p)
      BY <2>2, <3>1, LeftParts DEF ReactDelete, ReactionsIn, PostKnown
    <3>2. CASE ReactInsert(p)
      <4>1. CASE UNCHANGED reactions
        BY <2>2, <4>1, LeftStays
      <4>2. CASE ~UNCHANGED reactions
        <5>1. PICK i, u : i = req[p].post /\ u = req[p].user
          OBVIOUS
        <5>2. reactions' = reactions \cup {<<i, u>>} /\ lost' = lost \cup NoPost(i)
          BY <3>2, <4>2, <5>1 DEF ReactInsert, Leaving, Pair
        <5>3. PostKnown(i)'
          BY <2>2, <5>2 DEF PostKnown, NoPost
        <5>4. ASSUME NEW pair \in reactions'
              PROVE  PostKnown(pair[1])'
          <6>1. CASE pair \in reactions
            BY <2>2, <5>2, <6>1, LeftParts DEF ReactionsIn, PostKnown
          <6>2. CASE pair = <<i, u>>
            BY <5>3, <6>2 DEF PostKnown
          <6>3. QED BY <5>2, <6>1, <6>2
        <5>5. QED BY <5>4 DEF ReactionsIn
      <4>3. QED BY <4>1, <4>2
    <3>3. CASE CreateReport(p) \/ ReviewReport(p)
      BY <2>2, <3>3, LeftStays DEF CreateReport, ReviewReport
    <3>4. QED BY <1>3, <3>1, <3>2, <3>3 DEF FeedbackWrites
  <2>4. ReportsIn'
    <3>1. CASE ReactDelete(p) \/ ReactInsert(p)
      BY <2>2, <3>1, LeftStays DEF ReactDelete, ReactInsert
    <3>2. CASE CreateReport(p)
      <4>1. CASE UNCHANGED reports
        BY <2>2, <4>1, LeftStays
      <4>2. CASE ~UNCHANGED reports
        <5>1. PICK k \in RowIds :
                reports' = [reports EXCEPT ![k] = [post |-> req[p].post, status |-> "open"]]
          BY <3>2, <4>2 DEF CreateReport
        <5>2. PICK i : i = req[p].post
          OBVIOUS
        <5>3. lost' = lost \cup NoPost(i)
          BY <3>2, <4>2, <5>2 DEF CreateReport, Leaving
        <5>4. PostKnown(i)'
          BY <2>2, <5>3 DEF PostKnown, NoPost
        <5>5. reports' = [reports EXCEPT ![k] = [post |-> i, status |-> "open"]]
          BY <5>1, <5>2
        <5>6. QED BY <1>1, <2>2, <5>3, <5>4, <5>5, LeftParts DEF ReportsIn, Reports, PostKnown
      <4>3. QED BY <3>2, <4>1, <4>2 DEF CreateReport
    <3>3. CASE ReviewReport(p)
      <4>1. \A k \in Reports : [reports[k] EXCEPT !.status = req[p].verdict].post
                                 = reports[k].post
        BY <1>1 DEF Reports, ReportRow
      <4>2. Reports' \subseteq Reports /\ \A k \in Reports' : reports'[k].post = reports[k].post
        BY <1>1, <3>3, <4>1 DEF ReviewReport, Reports
      <4>3. QED BY <2>2, <4>2, LeftParts DEF ReportsIn, PostKnown
    <3>4. QED BY <1>3, <3>1, <3>2, <3>3 DEF FeedbackWrites
  <2>5. QED BY <1>1, <2>1, <2>2, <2>3, <2>4, LeftStays, LeftParts
<1>4. QED BY <1>2, <1>3

LEMMA LeftFollowing ==
    ASSUME TypeInv, NothingLeftBehind, NEW p \in Procs, FollowingWrites(p),
           UNCHANGED <<feedbackVars, messageVars>>, lost \subseteq lost'
    PROVE  NothingLeftBehind'
<1>1. /\ threads \in [ThreadIds -> ThreadRow \cup {None}] /\ None \notin ThreadRow
      /\ posts \in [PostIds -> PostRow \cup {None}] /\ None \notin PostRow
      /\ marks \in [Users -> [ThreadIds -> Times \cup {None}]]
      /\ drafts \in [RowIds -> DraftRow \cup {None}]
      /\ req[p] \in Request(PCs) /\ Fits(req[p])
      /\ UNCHANGED <<reactions, reports>>
  BY RequestsOK DEF TypeInv, TypeOK, FollowingTypeOK, feedbackVars
<1>2. Threads \subseteq Threads'
  <2>1. CASE CreateThread(p)
    <3>1. PICK t \in ThreadIds, row \in ThreadRow : threads' = [threads EXCEPT ![t] = row]
      <4>1. clock \in Times
        BY DEF TypeInv, TypeOK
      <4>2. [last |-> clock] \in ThreadRow
        BY <4>1 DEF ThreadRow
      <4>3. QED BY <2>1, <4>2 DEF CreateThread
    <3>2. QED BY <1>1, <3>1 DEF Threads
  <2>2. CASE UpdateLastPost(p)
    <3>1. \A t \in Threads : [threads[t] EXCEPT !.last = req[p].at] \in ThreadRow
      BY <1>1, RequestFields DEF Threads, ThreadRow
    <3>2. QED BY <1>1, <2>2, <3>1 DEF UpdateLastPost, Threads
  <2>3. QED BY <2>1, <2>2 DEF FollowingWrites, CreatePost, CreatePostFails, GetDraftByThread,
          DeleteDraft, MarkThreadRead, ListPosts, SaveDraft, Threads
<1>3. Posts \subseteq Posts' /\ PostsIn'
  <2>1. CASE CreatePost(p)
    <3>0. PICK t : t = req[p].thread
      OBVIOUS
    <3>1. UNCHANGED threads /\ lost' = lost \cup NoThread(t)
      BY <2>1, <3>0 DEF CreatePost, InsertPost, Leaving
    <3>4. ThreadKnown(t)'
      BY <3>1 DEF ThreadKnown, NoThread, Threads
    <3>2. PICK i \in PostIds : \E row : /\ posts' = [posts EXCEPT ![i] = row] /\ row # None
                                        /\ row.thread = t
      <4>1. PICK i \in PostIds : InsertPost(i, req[p].thread, req[p].user, req[p].at)
        BY <2>1 DEF CreatePost
      <4>2. PICK row : row = [thread |-> req[p].thread, author |-> req[p].user,
                              removed |-> FALSE, stamp |-> req[p].at]
        OBVIOUS
      <4>3. row \in PostRow
        BY <1>1, <2>1, <4>2, RequestFields DEF CreatePost, Fits, PostRow
      <4>4. posts' = [posts EXCEPT ![i] = row] /\ row.thread = req[p].thread
        BY <4>1, <4>2 DEF InsertPost
      <4>5. QED BY <1>1, <3>0, <4>3, <4>4
    <3>3. QED BY <1>1, <1>2, <3>2, <3>4, LeftParts DEF PostsIn, ThreadKnown, Posts
  <2>2. CASE ~CreatePost(p)
    <3>1. UNCHANGED posts
      BY <2>2 DEF FollowingWrites, CreateThread, CreatePostFails, UpdateLastPost,
           GetDraftByThread, DeleteDraft, MarkThreadRead, ListPosts, SaveDraft
    <3>2. Posts \subseteq Posts'
      BY <3>1 DEF Posts
    <3>3. QED BY <1>2, <3>1, <3>2, LeftStays
  <2>3. QED BY <2>1, <2>2
<1>4. MarksIn'
  <2>1. CASE MarkThreadRead(p)
    <3>1. UNCHANGED threads /\ req[p].user \in Users /\ req[p].thread \in ThreadIds
      BY <1>1, <2>1 DEF MarkThreadRead, At, Fits
    <3>2. ASSUME NEW u \in Users, NEW t \in ThreadIds, marks'[u][t] # None,
                 marks[u][t] = None
          PROVE  ThreadKnown(t)'
      <4>1. u = req[p].user /\ t = req[p].thread /\ Leaving(Unmarked(p))
        BY <1>1, <2>1, <3>1, <3>2 DEF MarkThreadRead
      <4>2. lost' = lost \cup NoThread(t)
        <5>1. Unmarked(p) = NoThread(t)
          BY <3>2, <4>1 DEF Unmarked
        <5>2. QED BY <4>1, <5>1 DEF Leaving
      <4>3. QED BY <3>1, <4>2 DEF ThreadKnown, NoThread, Threads
    <3>3. ASSUME NEW u \in Users, NEW t \in ThreadIds, marks[u][t] # None
          PROVE  ThreadKnown(t)'
      BY <1>2, <3>3, LeftParts DEF MarksIn, ThreadKnown
    <3>4. QED BY <3>2, <3>3 DEF MarksIn
  <2>2. CASE ~MarkThreadRead(p)
    <3>1. UNCHANGED marks
      BY <2>2 DEF FollowingWrites, CreateThread, CreatePost, CreatePostFails, UpdateLastPost,
           GetDraftByThread, DeleteDraft, ListPosts, SaveDraft
    <3>2. QED BY <1>2, <1>3, <3>1, LeftStays
  <2>3. QED BY <2>1, <2>2
<1>5. DraftsIn'
  <2>1. CASE DeleteDraft(p)
    <3>1. Drafts' \subseteq Drafts /\ \A d \in Drafts' : drafts'[d] = drafts[d]
      BY <1>1, <2>1 DEF DeleteDraft, Without, Drafts
    <3>2. QED BY <1>2, <3>1, LeftParts DEF DraftsIn, ThreadKnown
  <2>2. CASE SaveDraft(p)
    <3>1. PICK u \in Users, t \in ThreadIds \cup {None} : UpsertDraft(u, t)
      BY <2>2 DEF SaveDraft
    <3>2. \A d \in Drafts' : (d \in Drafts /\ drafts'[d] = drafts[d]) \/ drafts'[d].thread = t
      <4>1. PICK row : row = [user |-> u, thread |-> t]
        OBVIOUS
      <4>2. row.thread = t
        BY <4>1
      <4>3. UNCHANGED drafts \/ \E d \in RowIds : drafts' = [drafts EXCEPT ![d] = row]
        BY <3>1, <4>1 DEF UpsertDraft
      <4>4. QED BY <1>1, <4>2, <4>3 DEF Drafts
    <3>3. ASSUME t # None, drafts' # drafts
          PROVE  ThreadKnown(t)'
      <4>1. NoThread(t) = {row \in NoThread(t) : t # None}
        BY <3>3
      <4>2. lost' = lost \cup NoThread(t)
        BY <3>1, <3>3, <4>1 DEF UpsertDraft, Leaving
      <4>3. QED BY <1>2, <4>2 DEF ThreadKnown, NoThread
    <3>4. CASE UNCHANGED drafts
      BY <1>2, <1>3, <3>4, LeftStays
    <3>5. QED BY <1>2, <3>2, <3>3, <3>4, LeftParts DEF DraftsIn, ThreadKnown
  <2>3. CASE ~DeleteDraft(p) /\ ~SaveDraft(p)
    <3>1. UNCHANGED drafts
      BY <2>3 DEF FollowingWrites, CreateThread, CreatePost, CreatePostFails, UpdateLastPost,
           GetDraftByThread, MarkThreadRead, ListPosts
    <3>2. QED BY <1>2, <1>3, <3>1, LeftStays
  <2>4. QED BY <2>1, <2>2, <2>3
<1>6. QED BY <1>1, <1>2, <1>3, <1>4, <1>5, LeftStays, LeftParts

LEMMA LeftCascade ==
    ASSUME TypeInv, NothingLeftBehind, NEW p \in Procs, DeleteAll(p)
    PROVE  NothingLeftBehind'
<1>1. /\ threads \in [ThreadIds -> ThreadRow \cup {None}]
      /\ posts \in [PostIds -> PostRow \cup {None}]
      /\ reports \in [RowIds -> ReportRow \cup {None}]
      /\ marks \in [Users -> [ThreadIds -> Times \cup {None}]]
      /\ drafts \in [RowIds -> DraftRow \cup {None}]
  BY DEF TypeInv, TypeOK, FeedbackTypeOK, FollowingTypeOK
<1>2. PICK gone : gone = req[p].thread
  OBVIOUS
<1>3. Threads' = Threads \ {gone}
  BY <1>1, <1>2 DEF DeleteAll, DeleteThread, Without, Threads
<1>4. /\ Posts' = Posts \ PostsOf(gone) /\ \A i \in Posts' : posts'[i] = posts[i]
  BY <1>1, <1>2 DEF DeleteAll, DeleteThread, Without, Posts
<1>0. UNCHANGED lost
  BY DEF DeleteAll, DeleteThread
<1>5. PostsIn'
  BY <1>0, <1>3, <1>4, LeftParts DEF PostsIn, PostsOf, ThreadKnown
<1>6. ReactionsIn'
  BY <1>0, <1>2, <1>4, LeftParts DEF DeleteAll, CascadeFeedback, ReactionsIn, PostKnown
<1>7. ReportsIn'
  <2>1. reports' = Without(reports, {k \in Reports : reports[k].post \in PostsOf(gone)})
    BY <1>2 DEF DeleteAll, CascadeFeedback
  <2>2. \A k \in Reports' : /\ k \in Reports /\ reports'[k] = reports[k]
                            /\ reports[k].post \notin PostsOf(gone)
    BY <1>1, <2>1 DEF Without, Reports
  <2>3. QED BY <1>0, <1>4, <2>2, LeftParts DEF ReportsIn, PostKnown
<1>8. MarksIn'
  <2>1. marks' = [u \in Users |-> [marks[u] EXCEPT ![gone] = None]]
    BY <1>2 DEF DeleteAll, CascadeFollowing
  <2>2. \A u \in Users, t \in ThreadIds : marks'[u][t] = IF t = gone THEN None ELSE marks[u][t]
    BY <1>1, <2>1
  <2>3. QED BY <1>0, <1>3, <2>2, LeftParts DEF MarksIn, ThreadKnown
<1>9. DraftsIn'
  <2>1. drafts' = Without(drafts, {d \in Drafts : drafts[d].thread = gone})
    BY <1>2 DEF DeleteAll, CascadeFollowing
  <2>2. \A d \in Drafts' : d \in Drafts /\ drafts'[d] = drafts[d] /\ drafts[d].thread # gone
    BY <1>1, <2>1 DEF Without, Drafts
  <2>3. QED BY <1>0, <1>3, <2>2, LeftParts DEF DraftsIn, ThreadKnown
<1>10. QED BY <1>5, <1>6, <1>7, <1>8, <1>9, LeftParts

\* Without foreign keys the thread goes alone.
LEMMA LeftAlone ==
    ASSUME TypeInv, NothingLeftBehind, NEW p \in Procs, DeleteThreadAlone(p),
           UNCHANGED <<feedbackVars, followingVars, messageVars>>
    PROVE  NothingLeftBehind'
<1>1. threads \in [ThreadIds -> ThreadRow \cup {None}]
  BY DEF TypeInv, TypeOK
<1>2. PICK gone : gone = req[p].thread
  OBVIOUS
<1>3. /\ Threads' = Threads \ {gone}
      /\ lost' = lost \cup {"thread"} \X ({gone} \cap Threads)
      /\ UNCHANGED <<posts, reactions, reports, marks, drafts>>
  BY <1>1, <1>2 DEF DeleteThreadAlone, Without, Threads, feedbackVars, followingVars
<1>4. /\ \A t : ThreadKnown(t) => ThreadKnown(t)'
      /\ \A i : PostKnown(i) => PostKnown(i)'
  BY <1>3 DEF ThreadKnown, PostKnown, Posts
<1>5. QED BY <1>3, <1>4, LeftParts DEF PostsIn, ReactionsIn, ReportsIn, MarksIn, DraftsIn,
          Posts, Reports, Drafts

LEMMA LeftStep ==
    ASSUME TypeInv, NothingLeftBehind, [Next]_vars
    PROVE  NothingLeftBehind'
<1>1. CASE UNCHANGED <<threads, posts, lost, reactions, reports, marks, drafts>>
  <2>1. Threads' = Threads /\ Posts' = Posts
    BY <1>1 DEF Threads, Posts
  <2>2. QED BY <1>1, <2>1, LeftStays, LeftParts
<1>2. CASE CleanupOldDrafts /\ UNCHANGED <<feedbackVars, messageVars>>
  <2>1. drafts \in [RowIds -> DraftRow \cup {None}]
    BY DEF TypeInv, TypeOK, FollowingTypeOK
  <2>2. UNCHANGED <<threads, posts, lost, reactions, reports, marks>>
    BY <1>2 DEF CleanupOldDrafts, feedbackVars
  <2>3. Threads' = Threads /\ Posts' = Posts
    BY <2>2 DEF Threads, Posts
  <2>4. Drafts' \subseteq Drafts /\ \A d \in Drafts' : drafts'[d] = drafts[d]
    BY <1>2, <2>1 DEF CleanupOldDrafts, Without, Drafts
  <2>5. DraftsIn'
    BY <2>2, <2>3, <2>4, LeftParts DEF DraftsIn, ThreadKnown
  <2>6. QED BY <2>2, <2>3, <2>5, LeftStays, LeftParts
<1>3. ASSUME NEW p \in Procs, DeletePost(p),
             UNCHANGED <<feedbackVars, followingVars, messageVars>>
      PROVE  NothingLeftBehind'
  <2>1. /\ UNCHANGED <<threads, lost, reactions, reports, marks, drafts>>
        /\ RemovePost(req[p].post)
    BY <1>3 DEF DeletePost, feedbackVars, followingVars
  <2>2. QED BY <2>1, LeftPosts
<1>4. ASSUME NEW p \in Procs, MessageWrites(p), UNCHANGED <<feedbackVars, followingVars>>
      PROVE  NothingLeftBehind'
  <2>1. UNCHANGED <<threads, posts, lost>>
    BY <1>4 DEF MessageWrites, SendMessage, ViewMessage, MarkPMRead, Hide
  <2>2. QED BY <1>1, <1>4, <2>1 DEF feedbackVars, followingVars
<1>5. ASSUME NEW p \in Procs, LogAndGoOn(p) \/ Abort(p)
      PROVE  NothingLeftBehind'
  BY <1>1, <1>5, UndoneTables DEF feedbackVars
<1>6. CASE Tick /\ UNCHANGED <<feedbackVars, followingVars, messageVars>>
  BY <1>1, <1>6 DEF feedbackVars, followingVars, Tick
<1>7. ASSUME NEW p \in Procs, Reads(p),
             UNCHANGED <<threads, posts, lost, clock, kinds, feedbackVars, followingVars,
                         messageVars>>
      PROVE  NothingLeftBehind'
  BY <1>1, <1>7 DEF feedbackVars, followingVars
<1>8. ASSUME NEW p \in Procs,
             \/ FeedbackWrites(p) /\ UNCHANGED <<followingVars, messageVars>>
             \/ FollowingWrites(p) /\ UNCHANGED <<feedbackVars, messageVars>>
             \/ DeleteAll(p)
             \/ /\ DeleteThreadAlone(p)
                /\ UNCHANGED <<feedbackVars, followingVars, messageVars>>
      PROVE  lost \subseteq lost' => NothingLeftBehind'
  BY <1>8, LeftFeedback, LeftFollowing, LeftCascade, LeftAlone
<1>9. CASE Next
  BY LostStep, <1>2, <1>3, <1>4, <1>5, <1>6, <1>7, <1>8, <1>9, NextCases
<1>10. CASE UNCHANGED vars
  BY <1>1, <1>10 DEF vars, baseVars, feedbackVars, followingVars
<1>11. QED BY <1>9, <1>10

LEMMA LeftHolds == Spec => []NothingLeftBehind
<1>1. Init => NothingLeftBehind
  BY DEF Init, BaseInit, FeedbackInit, FollowingInit, NothingLeftBehind, Posts, Reports, Drafts
<1>2. TypeInv /\ NothingLeftBehind /\ [Next]_vars => NothingLeftBehind'
  BY LeftStep
<1>3. QED BY <1>1, <1>2, TypeInvHolds, PTL DEF Spec

\* NothingLeftBehind, with foreign keys on, off, or on for some statements only:
\* reactions and reports have their post, posts, marks and drafts their thread,
\* whatever is written after the thread was deleted, but for what a statement
\* without foreign keys deleted or missed.
THEOREM NothingIsLeft == Spec => []NothingLeftBehind
BY LeftHolds

-----------------------------------------------------------------------------
(* Drafts.                                                                 *)

\* No draft comes, and those that stay stay as they are.
Shrunk == \A d \in Drafts' : d \in Drafts /\ drafts'[d] = drafts[d]

LEMMA Withdrawn ==
    ASSUME TypeInv, NEW gone, drafts' = Without(drafts, gone)
    PROVE  Shrunk /\ Drafts' = Drafts \ gone
<1>1. drafts \in [RowIds -> DraftRow \cup {None}]
  BY DEF TypeInv, TypeOK, FollowingTypeOK
<1>2. QED BY <1>1 DEF Shrunk, Without, Drafts

LEMMA Upserted ==
    ASSUME TypeInv, NEW u \in Users, NEW t \in ThreadIds \cup {None}, UpsertDraft(u, t)
    PROVE  \/ UNCHANGED drafts
           \/ \E k \in RowIds : /\ k \in Drafts' /\ k \notin Drafts /\ Drafts' = Drafts \cup {k}
                                /\ drafts'[k].user = u /\ drafts'[k].thread = t
                                /\ \A d \in Drafts : drafts'[d] = drafts[d]
                                /\ DraftsAt(u, t) = {}
<1>1. drafts \in [RowIds -> DraftRow \cup {None}]
  BY DEF TypeInv, TypeOK, FollowingTypeOK
<1>2. CASE DraftsAt(u, t) # {}
  BY <1>2 DEF UpsertDraft
<1>3. CASE DraftsAt(u, t) = {}
  <2>1. PICK row : row = [user |-> u, thread |-> t]
    OBVIOUS
  <2>2. row.user = u /\ row.thread = t
    BY <2>1
  <2>3. PICK k \in RowIds : NextKey(Drafts, k) /\ drafts' = [drafts EXCEPT ![k] = row]
    BY <1>3, <2>1 DEF UpsertDraft
  <2>4. k \notin Drafts
    BY <2>3 DEF NextKey, RowIds
  <2>5. row # None
    BY <2>1, MembersOK DEF DraftRow, Threads
  <2>6. QED BY <1>1, <1>3, <2>2, <2>3, <2>4, <2>5 DEF Drafts
<1>4. QED BY <1>2, <1>3

LEMMA DraftsMove ==
    ASSUME TypeInv, Next
    PROVE  Shrunk \/ \E u \in Users, t \in ThreadIds \cup {None} : UpsertDraft(u, t)
<1>1. CASE UNCHANGED drafts
  BY <1>1 DEF Shrunk, Drafts
<1>2. ASSUME NEW gone, drafts' = Without(drafts, gone)
      PROVE  Shrunk
  BY <1>2, Withdrawn
<1>3. ASSUME NEW p \in Procs, FollowingWrites(p)
      PROVE  Shrunk \/ \E u \in Users, t \in ThreadIds \cup {None} : UpsertDraft(u, t)
  <2>1. CASE DeleteDraft(p)
    BY <1>2, <2>1 DEF DeleteDraft
  <2>2. CASE SaveDraft(p)
    BY <2>2 DEF SaveDraft
  <2>3. CASE ~DeleteDraft(p) /\ ~SaveDraft(p)
    BY <1>1, <1>3, <2>3 DEF FollowingWrites, CreateThread, CreatePost, CreatePostFails,
         UpdateLastPost, GetDraftByThread, MarkThreadRead, ListPosts
  <2>4. QED BY <2>1, <2>2, <2>3
<1>4. ASSUME NEW p \in Procs, DeleteAll(p)
      PROVE  Shrunk
  BY <1>2, <1>4 DEF DeleteAll, CascadeFollowing
<1>5. CASE CleanupOldDrafts
  BY <1>2, <1>5 DEF CleanupOldDrafts
<1>6. \A p \in Procs : LogAndGoOn(p) \/ Abort(p) => UNCHANGED drafts
  BY UndoneTables
<1>7. QED BY <1>1, <1>3, <1>4, <1>5, <1>6, NextCases DEF followingVars

LEMMA OneDraftStep ==
    ASSUME TypeInv, OneDraftEach, [Next]_vars
    PROVE  OneDraftEach'
<1>1. ASSUME Shrunk
      PROVE  OneDraftEach'
  BY <1>1 DEF Shrunk, OneDraftEach
<1>2. ASSUME NEW u \in Users, NEW t \in ThreadIds \cup {None}, UpsertDraft(u, t),
             ~UNCHANGED drafts
      PROVE  OneDraftEach'
  <2>1. PICK k \in RowIds : /\ Drafts' = Drafts \cup {k}
                            /\ drafts'[k].user = u /\ drafts'[k].thread = t
                            /\ \A d \in Drafts : drafts'[d] = drafts[d]
                            /\ DraftsAt(u, t) = {}
    BY <1>2, Upserted
  <2>2. \A d \in Drafts : ~(drafts[d].user = u /\ drafts[d].thread = t)
    BY <2>1 DEF DraftsAt
  <2>3. QED BY <2>1, <2>2 DEF OneDraftEach
<1>3. CASE UNCHANGED drafts
  BY <1>3 DEF OneDraftEach, Drafts
<1>4. CASE UNCHANGED vars
  BY <1>3, <1>4 DEF vars, followingVars
<1>5. CASE Next
  BY <1>1, <1>2, <1>3, <1>5, DraftsMove
<1>6. QED BY <1>4, <1>5

\* There is one draft for each user and place.
THEOREM DraftsAreUnique == Spec => []OneDraftEach
<1>1. Init => OneDraftEach
  BY DEF Init, FollowingInit, OneDraftEach, Drafts
<1>2. TypeInv /\ OneDraftEach /\ [Next]_vars => OneDraftEach'
  BY OneDraftStep
<1>3. QED BY <1>1, <1>2, TypeInvHolds, PTL DEF Spec

-----------------------------------------------------------------------------
(* Messages.                                                               *)

\* What a request in flight knows of its message.
Knows(r) ==
    /\ r.pc = "markRead" =>
         messages[r.row].recipient = r.user /\ <<"open", r.user, r.row>> \in dealt
    /\ r.pc = "hide" => r.user \in {messages[r.row].sender, messages[r.row].recipient}

MessageInv ==
    /\ EachSideItsOwn
    /\ \A m \in Sent : messages[m].sender # messages[m].recipient
    /\ \A what, u, m : <<what, u, m>> \in dealt => m \in Sent
    /\ \A p \in Procs : Knows(req[p])

\* The requests, after messages and dealt may only have grown.
LEMMA KnowsStep ==
    ASSUME TypeInv, Next, \A p \in Procs : Knows(req[p]), dealt \subseteq dealt',
           NEW p \in Procs, NEW r \in Request(PCs), Fits(r), req' = [req EXCEPT ![p] = r],
           r.pc = "markRead" => r = req[p],
           r.pc = "hide" =>
             \/ r = req[p]
             \/ r.row \in Sent /\ r.user \in {messages[r.row].sender, messages[r.row].recipient}
    PROVE  \A q \in Procs : Knows(req[q])'
<1>1. req'[p] = r /\ \A q \in Procs \ {p} : req'[q] = req[q]
  BY RequestStep
<1>2. \A q \in Procs : req[q].pc \in {"markRead", "hide"} => req[q].row \in Sent
  BY DEF TypeInv, Kept
<1>3. \A m \in Sent : /\ messages'[m].sender = messages[m].sender
                      /\ messages'[m].recipient = messages[m].recipient
  BY SentGrows
<1>4. QED BY <1>1, <1>2, <1>3 DEF Knows

LEMMA MessageSent ==
    ASSUME TypeInv, MessageInv, Next, NEW p \in Procs, SendMessage(p)
    PROVE  MessageInv'
<1>1. messages \in [RowIds -> MessageRow \cup {None}] /\ UNCHANGED <<req, dealt>>
  BY DEF TypeInv, TypeOK, MessagesTypeOK, SendMessage
<1>2. PICK u \in Users, to \in Users : to # u /\ CreatePM(u, to)
  BY DEF SendMessage
<1>3. PICK row : row = [sender |-> u, recipient |-> to, read |-> FALSE, senderDeleted |-> FALSE,
                        recipientDeleted |-> FALSE]
  OBVIOUS
<1>4. PICK k \in RowIds : NextKey(Sent, k) /\ messages' = [messages EXCEPT ![k] = row]
  BY <1>2, <1>3 DEF CreatePM
<1>5. k \notin Sent
  BY <1>4 DEF NextKey, RowIds
<1>6. /\ row.sender # row.recipient /\ ~row.senderDeleted /\ ~row.recipientDeleted /\ ~row.read
      /\ row \in MessageRow
  BY <1>2, <1>3 DEF MessageRow
<1>7. Sent' = Sent \cup {k} /\ messages'[k] = row /\ \A m \in Sent : messages'[m] = messages[m]
  BY <1>1, <1>4, <1>5, <1>6, MembersOK DEF Sent
<1>8. \A what, x : <<what, x, k>> \notin dealt
  BY <1>5 DEF MessageInv
<1>9. EachSideItsOwn'
  BY <1>1, <1>6, <1>7, <1>8 DEF MessageInv, EachSideItsOwn
<1>10. \A q \in Procs : Knows(req[q])'
  <2>1. \A q \in Procs : req[q].pc \in {"markRead", "hide"} => req[q].row \in Sent
    BY DEF TypeInv, Kept
  <2>2. QED BY <1>1, <1>7, <2>1 DEF MessageInv, Knows
<1>11. QED BY <1>1, <1>6, <1>7, <1>9, <1>10 DEF MessageInv

LEMMA MessageViewed ==
    ASSUME TypeInv, MessageInv, Next, NEW p \in Procs, ViewMessage(p)
    PROVE  MessageInv'
<1>1. PICK u \in Users, m \in Sent :
        /\ dealt' = dealt \cup {<<"open", u, m>>}
        /\ IF messages[m].recipient = u /\ ~messages[m].read
           THEN Start(p, "open", [NoRequest EXCEPT !.pc = "markRead", !.user = u, !.row = m])
           ELSE UNCHANGED req
  BY DEF ViewMessage
<1>2. UNCHANGED messages /\ Sent' = Sent
  BY DEF ViewMessage, Sent
<1>3. \A what, x, k : <<what, x, k>> \in dealt' <=>
                        <<what, x, k>> \in dealt \/ (what = "open" /\ x = u /\ k = m)
  BY <1>1
<1>4. EachSideItsOwn'
  BY <1>2, <1>3 DEF MessageInv, EachSideItsOwn
<1>5. \A what, x, k : <<what, x, k>> \in dealt' => k \in Sent'
  BY <1>2, <1>3 DEF MessageInv
<1>6. \A q \in Procs : Knows(req[q])'
  <2>1. CASE UNCHANGED req
    BY <1>2, <1>3, <2>1 DEF MessageInv, Knows
  <2>2. CASE ~UNCHANGED req
    <3>1. PICK r : r = [NoRequest EXCEPT !.pc = "markRead", !.user = u, !.row = m]
      OBVIOUS
    <3>2. req' = [req EXCEPT ![p] = r] /\ messages[m].recipient = u
      BY <1>1, <2>2, <3>1 DEF Start
    <3>3. r.pc = "markRead" /\ r.user = u /\ r.row = m
      BY <3>1 DEF NoRequest
    <3>4. \A q \in Procs : req'[q] = IF q = p THEN r ELSE req[q]
      BY <3>2 DEF TypeInv, TypeOK
    <3>5. QED BY <1>2, <1>3, <3>2, <3>3, <3>4 DEF MessageInv, Knows
  <2>3. QED BY <2>1, <2>2
<1>7. QED BY <1>2, <1>4, <1>5, <1>6 DEF MessageInv

LEMMA MessageChanged ==
    ASSUME TypeInv, MessageInv, Next, NEW p \in Procs, MarkPMRead(p) \/ Hide(p)
    PROVE  MessageInv'
<1>1. messages \in [RowIds -> MessageRow \cup {None}] /\ Sent \subseteq RowIds
  BY DEF TypeInv, TypeOK, MessagesTypeOK, Sent
<1>2. PICK k, u : k = req[p].row /\ u = req[p].user
  OBVIOUS
<1>3. k \in Sent
  BY <1>2 DEF MarkPMRead, Hide, At, TypeInv, Kept
<1>4. PICK row \in MessageRow : row = messages[k] /\ row.sender # row.recipient
  BY <1>1, <1>3 DEF Sent, MessageInv
<1>5. /\ row.senderDeleted <=> <<"delete", row.sender, k>> \in dealt
      /\ row.recipientDeleted <=> <<"delete", row.recipient, k>> \in dealt
      /\ row.read => <<"open", row.recipient, k>> \in dealt
  BY <1>3, <1>4 DEF MessageInv, EachSideItsOwn
<1>6. PICK new \in MessageRow :
        /\ messages' = [messages EXCEPT ![k] = new]
        /\ new.sender = row.sender /\ new.recipient = row.recipient
        /\ new.senderDeleted <=> <<"delete", row.sender, k>> \in dealt'
        /\ new.recipientDeleted <=> <<"delete", row.recipient, k>> \in dealt'
        /\ new.read => <<"open", row.recipient, k>> \in dealt'
        /\ \A what, x, m : <<what, x, m>> \in dealt' => m \in Sent
        /\ \A what, x, m : m # k => (<<what, x, m>> \in dealt' <=> <<what, x, m>> \in dealt)
        /\ dealt \subseteq dealt'
  <2>1. CASE MarkPMRead(p)
    <3>1. PICK new : new = [row EXCEPT !.read = TRUE]
      OBVIOUS
    <3>2. /\ new \in MessageRow /\ new.sender = row.sender /\ new.recipient = row.recipient
          /\ new.senderDeleted = row.senderDeleted
          /\ new.recipientDeleted = row.recipientDeleted
      BY <3>1 DEF MessageRow
    <3>3. messages' = [messages EXCEPT ![k] = new] /\ UNCHANGED dealt
      BY <1>2, <1>4, <2>1, <3>1 DEF MarkPMRead
    <3>4. <<"open", row.recipient, k>> \in dealt
      BY <1>2, <1>4, <2>1 DEF MarkPMRead, At, MessageInv, Knows
    <3>5. QED BY <1>5, <3>2, <3>3, <3>4 DEF MessageInv
  <2>2. CASE Hide(p)
    <3>1. u \in {row.sender, row.recipient}
      BY <1>2, <1>4, <2>2 DEF Hide, At, MessageInv, Knows
    <3>2. \A what, x, m : <<what, x, m>> \in dealt' <=>
                            <<what, x, m>> \in dealt \/ (what = "delete" /\ x = u /\ m = k)
      BY <1>2, <2>2 DEF Hide
    <3>3. CASE row.sender = u
      <4>1. PICK new : new = [row EXCEPT !.senderDeleted = TRUE]
        OBVIOUS
      <4>2. /\ new \in MessageRow /\ new.sender = row.sender /\ new.recipient = row.recipient
            /\ new.senderDeleted /\ new.recipientDeleted = row.recipientDeleted
            /\ new.read = row.read
        BY <4>1 DEF MessageRow
      <4>3. messages' = [messages EXCEPT ![k] = new]
        BY <1>2, <1>4, <2>2, <3>3, <4>1 DEF Hide, DeletePMForSender
      <4>4. \A what, x, m : <<what, x, m>> \in dealt' => m \in Sent
        BY <1>3, <3>2 DEF MessageInv
      <4>5. dealt \subseteq dealt'
        BY <2>2 DEF Hide
      <4>6. /\ new.senderDeleted <=> <<"delete", row.sender, k>> \in dealt'
            /\ new.recipientDeleted <=> <<"delete", row.recipient, k>> \in dealt'
            /\ new.read => <<"open", row.recipient, k>> \in dealt'
        BY <1>4, <1>5, <3>2, <3>3, <4>2
      <4>7. \A what, x, m : m # k => (<<what, x, m>> \in dealt' <=> <<what, x, m>> \in dealt)
        BY <3>2
      <4>8. QED BY <4>2, <4>3, <4>4, <4>5, <4>6, <4>7
    <3>4. CASE row.sender # u
      <4>1. PICK new : new = [row EXCEPT !.recipientDeleted = TRUE]
        OBVIOUS
      <4>2. /\ new \in MessageRow /\ new.sender = row.sender /\ new.recipient = row.recipient
            /\ new.recipientDeleted /\ new.senderDeleted = row.senderDeleted
            /\ new.read = row.read
        BY <4>1 DEF MessageRow
      <4>3. messages' = [messages EXCEPT ![k] = new]
        BY <1>2, <1>4, <2>2, <3>4, <4>1 DEF Hide, DeletePMForRecipient
      <4>4. \A what, x, m : <<what, x, m>> \in dealt' => m \in Sent
        BY <1>3, <3>2 DEF MessageInv
      <4>5. dealt \subseteq dealt'
        BY <2>2 DEF Hide
      <4>6. QED BY <1>4, <1>5, <3>1, <3>2, <3>4, <4>2, <4>3, <4>4, <4>5
    <3>5. QED BY <3>3, <3>4
  <2>3. QED BY <2>1, <2>2
<1>7. Sent' = Sent /\ messages'[k] = new /\ \A m \in Sent \ {k} : messages'[m] = messages[m]
  BY <1>1, <1>3, <1>6, MembersOK DEF Sent
<1>8. EachSideItsOwn'
  <2>1. ASSUME NEW m \in Sent
        PROVE  /\ messages'[m].senderDeleted <=> <<"delete", messages'[m].sender, m>> \in dealt'
               /\ messages'[m].recipientDeleted <=>
                    <<"delete", messages'[m].recipient, m>> \in dealt'
               /\ messages'[m].read => <<"open", messages'[m].recipient, m>> \in dealt'
    <3>1. CASE m = k
      BY <1>6, <1>7, <3>1
    <3>2. CASE m # k
      BY <1>6, <1>7, <3>2 DEF MessageInv, EachSideItsOwn
    <3>3. QED BY <3>1, <3>2
  <2>2. QED BY <1>7, <2>1 DEF EachSideItsOwn
<1>9. \A q \in Procs : Knows(req[q])'
  <2>1. PICK r \in Request(PCs) : Fits(r) /\ req' = [req EXCEPT ![p] = r] /\ r = NoRequest
    BY FinishStep DEF MarkPMRead, Hide
  <2>2. r.pc = "idle"
    BY <2>1 DEF NoRequest
  <2>3. QED BY <1>6, <2>1, <2>2, KnowsStep DEF MessageInv
<1>10. \A m \in Sent' : messages'[m].sender # messages'[m].recipient
  BY <1>4, <1>6, <1>7 DEF MessageInv
<1>11. QED BY <1>6, <1>7, <1>8, <1>9, <1>10 DEF MessageInv

LEMMA MessageStep ==
    ASSUME TypeInv, MessageInv, [Next]_vars
    PROVE  MessageInv'
<1>1. CASE UNCHANGED vars
  BY <1>1 DEF vars, baseVars, messageVars, MessageInv, EachSideItsOwn, Knows, Sent
<1>2. ASSUME Next, UNCHANGED <<messages, dealt>>, NEW p \in Procs, NEW r \in Request(PCs),
             Fits(r), req' = [req EXCEPT ![p] = r],
             r.pc = "markRead" => r = req[p],
             r.pc = "hide" =>
               \/ r = req[p]
               \/ r.row \in Sent /\ r.user \in {messages[r.row].sender, messages[r.row].recipient}
      PROVE  MessageInv'
  <2>1. \A q \in Procs : Knows(req[q])'
    BY <1>2, KnowsStep DEF MessageInv
  <2>2. QED BY <1>2, <2>1 DEF MessageInv, EachSideItsOwn, Sent
<1>3. CASE Next
  <2>1. ASSUME NEW p \in Procs, Reads(p), UNCHANGED messageVars
        PROVE  MessageInv'
    <3>1. PICK r \in Request(PCs) : Fits(r) /\ req' = [req EXCEPT ![p] = r] /\ Begins(r)
      BY <2>1, StartStep
    <3>2. r.pc # "markRead"
      BY <3>1 DEF Begins
    <3>3. r.pc = "hide" =>
            r.row \in Sent /\ r.user \in {messages[r.row].sender, messages[r.row].recipient}
      BY <3>1 DEF Begins
    <3>4. QED BY <1>2, <1>3, <2>1, <3>1, <3>2, <3>3 DEF messageVars
  <2>2. ASSUME NEW p \in Procs, Writes(p), ~MessageWrites(p), UNCHANGED messageVars
        PROVE  MessageInv'
    <3>1. PICK r \in Request(PCs) : /\ Fits(r) /\ req' = [req EXCEPT ![p] = r]
                                    /\ Moves(req[p], r)
      BY <2>2, WriteStep
    <3>2. req \in [Procs -> Request(PCs)] /\ req[p] \in Request(PCs) /\ req'[p] = r
      BY <3>1 DEF TypeInv, TypeOK
    <3>3. r.pc = "hide" => r = req[p]
      BY <3>1, <3>2, MovesFields DEF NoRequest
    <3>4. r.pc = "markRead" => r = req[p]
      <4>1. CASE At(p, "idle")
        <5>1. SaveDraft(p) \/ CreateThread(p)
          BY <2>2, <4>1 DEF Writes, FeedbackWrites, FollowingWrites, ReactDelete, ReactInsert,
             CreateReport, ReviewRemove, ReviewReport, CreatePost, CreatePostFails,
             UpdateLastPost, GetDraftByThread, DeleteDraft, MarkThreadRead, ListPosts,
             DeletePost, DeleteThread, DeleteThreadAlone, LogAndGoOn, Abort, At
        <5>2. CASE SaveDraft(p)
          BY <3>2, <5>2 DEF SaveDraft
        <5>3. CASE CreateThread(p)
          <6>1. PICK u, t : req' = [req EXCEPT ![p] = [NoRequest EXCEPT !.pc = "opInsert",
                                               !.user = u, !.thread = t, !.at = clock]]
            BY <5>3 DEF CreateThread, Start
          <6>2. [NoRequest EXCEPT !.pc = "opInsert", !.user = u, !.thread = t,
                                  !.at = clock].pc = "opInsert"
            BY DEF NoRequest
          <6>3. QED BY <3>2, <6>1, <6>2
        <5>4. QED BY <5>1, <5>2, <5>3
      <4>2. CASE ~At(p, "idle")
        BY <3>1, <3>2, <4>2, MovesFields DEF NoRequest, At
      <4>3. QED BY <4>1, <4>2
    <3>5. UNCHANGED <<messages, dealt>>
      BY <2>2 DEF messageVars
    <3>6. CASE r = req[p]
      <4>1. UNCHANGED req
        BY <3>1, <3>2, <3>6
      <4>2. QED BY <3>5, <4>1 DEF MessageInv, EachSideItsOwn, Knows, Sent
    <3>7. CASE r # req[p]
      <4>1. r.pc # "markRead" /\ r.pc # "hide"
        BY <3>3, <3>4, <3>7
      <4>2. QED BY <1>2, <1>3, <3>1, <3>5, <4>1
    <3>8. QED BY <3>6, <3>7
  <2>3. CASE UNCHANGED <<req, messageVars>>
    BY <2>3 DEF messageVars, MessageInv, EachSideItsOwn, Knows, Sent
  <2>4. ASSUME NEW p \in Procs, MessageWrites(p)
        PROVE  MessageInv'
    BY <1>3, <2>4, MessageSent, MessageViewed, MessageChanged DEF MessageWrites
  <2>5. \/ \E p \in Procs : \/ Reads(p) /\ UNCHANGED messageVars
                            \/ MessageWrites(p)
                            \/ Writes(p) /\ ~MessageWrites(p) /\ UNCHANGED messageVars
        \/ UNCHANGED <<req, messageVars>>
    <3>1. \A p \in Procs : LogAndGoOn(p) \/ Abort(p) => UNCHANGED messageVars
      BY DEF LogAndGoOn, Abort
    <3>2. QED BY <1>3, <3>1, NextCases DEF Writes, DeleteAll, Tick, CleanupOldDrafts
  <2>6. QED BY <2>1, <2>2, <2>3, <2>4, <2>5
<1>4. QED BY <1>1, <1>3

\* A message is hidden from those who deleted it, and read only if its
\* recipient opened it.
THEOREM SidesAreApart == Spec => []EachSideItsOwn
<1>1. Init => MessageInv
  BY DEF Init, BaseInit, MessagesInit, MessageInv, EachSideItsOwn, Sent, Knows, NoRequest
<1>2. TypeInv /\ MessageInv /\ [Next]_vars => MessageInv'
  BY MessageStep
<1>3. MessageInv => EachSideItsOwn
  BY DEF MessageInv
<1>4. QED BY <1>1, <1>2, <1>3, TypeInvHolds, PTL DEF Spec

-----------------------------------------------------------------------------
(* Reviewed reports.                                                       *)

LEMMA KindsStay ==
    ASSUME Next
    PROVE  UNCHANGED kinds
<1>1. ASSUME NEW p \in Procs,
             FeedbackWrites(p) \/ FollowingWrites(p) \/ MessageWrites(p) \/ DeletePost(p)
               \/ DeleteAll(p) \/ DeleteThreadAlone(p) \/ LogAndGoOn(p) \/ Abort(p)
      PROVE  UNCHANGED kinds
  BY <1>1 DEF FeedbackWrites, FollowingWrites, MessageWrites, ReactDelete, ReactInsert,
     CreateReport, ReviewRemove, ReviewReport, CreateThread, CreatePost, CreatePostFails,
     UpdateLastPost, GetDraftByThread, DeleteDraft, MarkThreadRead, ListPosts, SaveDraft,
     SendMessage, ViewMessage, MarkPMRead, Hide, DeletePost, DeleteAll, DeleteThread,
     DeleteThreadAlone, LogAndGoOn, Abort
<1>2. Tick \/ CleanupOldDrafts => UNCHANGED kinds
  BY DEF Tick, CleanupOldDrafts
<1>3. QED BY <1>1, <1>2, NextCases

\* A post that is inserted takes a free key.
LEMMA PostInserted ==
    ASSUME TypeInv, NEW p \in Procs, CreatePost(p)
    PROVE  \E i \in PostIds :
             /\ i \notin Posts /\ Posts' = Posts \cup {i}
             /\ posts'[i].thread = req[p].thread /\ posts'[i].stamp = req[p].at
             /\ \A j \in Posts : posts'[j] = posts[j]
             /\ lost' = lost \cup NoThread(req[p].thread)
             /\ settled' = settled \cup Unannounced(p) \X {i}
             /\ IF At(p, "insert")
                THEN req' = [req EXCEPT ![p].pc = "lastPost", ![p].post = i]
                ELSE Finish(p)
<1>1. /\ posts \in [PostIds -> PostRow \cup {None}] /\ None \notin PostRow
      /\ req[p] \in Request(PCs) /\ Fits(req[p])
  BY RequestsOK DEF TypeInv, TypeOK
<1>2. PICK i \in PostIds :
        /\ InsertPost(i, req[p].thread, req[p].user, req[p].at)
        /\ settled' = settled \cup Unannounced(p) \X {i}
        /\ IF At(p, "insert") THEN req' = [req EXCEPT ![p].pc = "lastPost", ![p].post = i]
           ELSE Finish(p)
  BY DEF CreatePost
<1>3. PICK row : row = [thread |-> req[p].thread, author |-> req[p].user, removed |-> FALSE,
                        stamp |-> req[p].at]
  OBVIOUS
<1>4. row \in PostRow /\ row.thread = req[p].thread /\ row.stamp = req[p].at
  BY <1>1, <1>3, RequestFields DEF CreatePost, Fits, PostRow
<1>5. i \notin Posts /\ posts' = [posts EXCEPT ![i] = row]
  BY <1>2, <1>3 DEF InsertPost, NextKey, PostIds
<1>6. Posts' = Posts \cup {i} /\ posts'[i] = row /\ \A j \in Posts : posts'[j] = posts[j]
  BY <1>1, <1>2, <1>4, <1>5 DEF Posts
<1>7. QED BY <1>2, <1>4, <1>5, <1>6 DEF InsertPost, Leaving

\* What a step does to the posts there are.
LEMMA PostsMove ==
    ASSUME TypeInv, Next
    PROVE  \/ \A i \in Posts : /\ i \in Posts' /\ posts'[i].thread = posts[i].thread
                               /\ posts'[i].stamp = posts[i].stamp
                               /\ posts[i].removed => posts'[i].removed
           \/ \E p \in Procs : DeleteAll(p)
<1>1. CASE UNCHANGED posts
  BY <1>1 DEF Posts
<1>2. ASSUME NEW i, RemovePost(i)
      PROVE  \A j \in Posts : /\ j \in Posts' /\ posts'[j].thread = posts[j].thread
                              /\ posts'[j].stamp = posts[j].stamp
                              /\ posts[j].removed => posts'[j].removed
  BY <1>2, RemovedStays
<1>3. ASSUME NEW p \in Procs, CreatePost(p)
      PROVE  \A j \in Posts : j \in Posts' /\ posts'[j] = posts[j]
  BY <1>3, PostInserted
<1>4. ASSUME NEW p \in Procs
      PROVE  /\ FeedbackWrites(p) => UNCHANGED posts \/ RemovePost(req[p].post)
             /\ FollowingWrites(p) => UNCHANGED posts \/ CreatePost(p)
             /\ MessageWrites(p) => UNCHANGED posts
             /\ DeletePost(p) => RemovePost(req[p].post)
             /\ DeleteThreadAlone(p) \/ LogAndGoOn(p) \/ Abort(p) => UNCHANGED posts
  BY DEF FeedbackWrites, FollowingWrites, MessageWrites, ReactDelete, ReactInsert,
     CreateReport, ReviewRemove, ReviewReport, CreateThread, CreatePostFails,
     UpdateLastPost, GetDraftByThread, DeleteDraft, MarkThreadRead, ListPosts, SaveDraft,
     SendMessage, ViewMessage, MarkPMRead, Hide, DeletePost, DeleteThreadAlone, LogAndGoOn,
     Abort
<1>5. Tick \/ CleanupOldDrafts => UNCHANGED posts
  BY DEF Tick, CleanupOldDrafts
<1>6. \/ UNCHANGED posts
      \/ \E i : RemovePost(i)
      \/ \E p \in Procs : CreatePost(p) \/ DeleteAll(p)
  BY <1>4, <1>5, NextCases
<1>7. QED BY <1>1, <1>2, <1>3, <1>6

\* What a step does to the reports there are.
LEMMA ReportsMove ==
    ASSUME TypeInv, Next
    PROVE  \/ \A k \in Reports : k \in Reports' /\ reports'[k].post = reports[k].post
           \/ \E p \in Procs : DeleteAll(p)
<1>1. CASE UNCHANGED reports
  BY <1>1 DEF Reports
<1>2. reports \in [RowIds -> ReportRow \cup {None}]
  BY DEF TypeInv, TypeOK, FeedbackTypeOK
<1>3. ASSUME NEW p \in Procs, CreateReport(p), ~UNCHANGED reports
      PROVE  \A k \in Reports : k \in Reports' /\ reports'[k] = reports[k]
  <2>0. PICK row : \E k \in RowIds :
                     NextKey(Reports, k) /\ reports' = [reports EXCEPT ![k] = row]
    BY <1>3 DEF CreateReport
  <2>1. PICK k \in RowIds : NextKey(Reports, k) /\ reports' = [reports EXCEPT ![k] = row]
    BY <2>0
  <2>2. k \notin Reports
    BY <2>1 DEF NextKey, RowIds
  <2>3. QED BY <1>2, <2>1, <2>2 DEF Reports
<1>4. ASSUME NEW p \in Procs, ReviewReport(p)
      PROVE  \A k \in Reports : k \in Reports' /\ reports'[k].post = reports[k].post
  <2>1. ASSUME NEW k \in Reports
        PROVE  reports'[k] # None /\ reports'[k].post = reports[k].post
    <3>1. PICK row \in ReportRow : row = reports[k]
      BY <1>2 DEF Reports
    <3>2. PICK new : new = [row EXCEPT !.status = req[p].verdict]
      OBVIOUS
    <3>3. req[p].verdict \in Verdicts
      BY <1>4 DEF ReviewReport, At, TypeInv, Fits
    <3>4. new \in ReportRow /\ new.post = row.post
      BY <3>2, <3>3 DEF ReportRow
    <3>5. reports'[k] = IF k = req[p].row THEN new ELSE row
      BY <1>4, <3>1, <3>2 DEF ReviewReport, Reports
    <3>6. QED BY <3>1, <3>4, <3>5, MembersOK
  <2>2. QED BY <2>1 DEF Reports
<1>5. \A p \in Procs : FeedbackWrites(p) => UNCHANGED reports \/ CreateReport(p) \/ ReviewReport(p)
  BY DEF FeedbackWrites, ReactDelete, ReactInsert, ReviewRemove
<1>6. \A p \in Procs : LogAndGoOn(p) \/ Abort(p) => UNCHANGED reports
  BY DEF LogAndGoOn, Abort, feedbackVars
<1>7. \/ UNCHANGED reports
      \/ \E p \in Procs : CreateReport(p) \/ ReviewReport(p) \/ DeleteAll(p)
  BY <1>5, <1>6, NextCases DEF feedbackVars
<1>8. QED BY <1>1, <1>3, <1>4, <1>7

\* A report that is new is about the post its request named.
LEMMA NewReports ==
    ASSUME TypeInv, Next, \A p \in Procs : ~DeleteAll(p), NEW k \in Reports'
    PROVE  \/ k \in Reports /\ reports'[k].post = reports[k].post
           \/ \E p \in Procs : At(p, "report") /\ reports'[k].post = req[p].post
<1>1. reports \in [RowIds -> ReportRow \cup {None}]
  BY DEF TypeInv, TypeOK, FeedbackTypeOK
<1>2. CASE k \in Reports
  BY <1>2, ReportsMove
<1>3. CASE k \notin Reports
  <2>1. ASSUME NEW p \in Procs, CreateReport(p), ~UNCHANGED reports
        PROVE  At(p, "report") /\ reports'[k].post = req[p].post
    <3>1. PICK row : row = [post |-> req[p].post, status |-> "open"]
      OBVIOUS
    <3>2. row.post = req[p].post
      BY <3>1
    <3>3. PICK j \in RowIds : reports' = [reports EXCEPT ![j] = row]
      BY <2>1, <3>1 DEF CreateReport
    <3>4. k = j
      BY <1>1, <1>3, <3>3 DEF Reports
    <3>5. QED BY <1>1, <2>1, <3>2, <3>3, <3>4 DEF CreateReport
  <2>2. \A p \in Procs : ~ReviewReport(p)
    BY <1>3 DEF ReviewReport, Reports
  <2>3. ~UNCHANGED reports
    BY <1>3 DEF Reports
  <2>4. ASSUME NEW p \in Procs
        PROVE  /\ FeedbackWrites(p) => UNCHANGED reports \/ CreateReport(p)
               /\ LogAndGoOn(p) \/ Abort(p) => UNCHANGED reports
    BY <2>2 DEF FeedbackWrites, ReactDelete, ReactInsert, ReviewRemove, LogAndGoOn, Abort,
                feedbackVars
  <2>5. \E p \in Procs : CreateReport(p)
    BY <2>3, <2>4, NextCases DEF feedbackVars
  <2>6. QED BY <2>1, <2>3, <2>5
<1>4. QED BY <1>2, <1>3

\* A report that is reviewed in this step or was before.
LEMMA StatusMoves ==
    ASSUME TypeInv, Next, NEW k \in Reports', reports'[k].status = "reviewed"
    PROVE  \/ k \in Reports /\ reports[k].status = "reviewed"
           \/ \E p \in Procs : /\ At(p, "review") /\ req[p].row = k /\ k \in Reports
                               /\ req[p].verdict = "reviewed"
<1>1. reports \in [RowIds -> ReportRow \cup {None}]
  BY DEF TypeInv, TypeOK, FeedbackTypeOK
<1>2. CASE UNCHANGED reports
  BY <1>2 DEF Reports
<1>3. ASSUME NEW p \in Procs, CreateReport(p), ~UNCHANGED reports
      PROVE  k \in Reports /\ reports[k].status = "reviewed"
  <2>1. PICK row : row = [post |-> req[p].post, status |-> "open"]
    OBVIOUS
  <2>2. row.status = "open"
    BY <2>1
  <2>3. PICK j \in RowIds : reports' = [reports EXCEPT ![j] = row]
    BY <1>3, <2>1 DEF CreateReport
  <2>4. QED BY <1>1, <2>2, <2>3 DEF Reports
<1>4. ASSUME NEW p \in Procs, ReviewReport(p)
      PROVE  \/ k \in Reports /\ reports[k].status = "reviewed"
             \/ At(p, "review") /\ req[p].row = k /\ k \in Reports /\ req[p].verdict = "reviewed"
  <2>1. CASE k = req[p].row /\ k \in Reports
    <3>1. PICK row \in ReportRow : row = reports[k]
      BY <1>1, <2>1 DEF Reports
    <3>2. reports'[k] = [row EXCEPT !.status = req[p].verdict]
      BY <1>4, <2>1, <3>1 DEF ReviewReport, Reports
    <3>3. [row EXCEPT !.status = req[p].verdict].status = req[p].verdict
      BY DEF ReportRow
    <3>4. QED BY <1>4, <2>1, <3>2, <3>3 DEF ReviewReport
  <2>2. CASE ~(k = req[p].row /\ k \in Reports)
    BY <1>4, <2>2 DEF ReviewReport, Reports
  <2>3. QED BY <2>1, <2>2
<1>5. ASSUME NEW p \in Procs, DeleteAll(p)
      PROVE  k \in Reports /\ reports[k].status = "reviewed"
  BY <1>1, <1>5 DEF DeleteAll, CascadeFeedback, Without, Reports
<1>6. \A p \in Procs : FeedbackWrites(p) => UNCHANGED reports \/ CreateReport(p) \/ ReviewReport(p)
  BY DEF FeedbackWrites, ReactDelete, ReactInsert, ReviewRemove
<1>7. \A p \in Procs : LogAndGoOn(p) \/ Abort(p) => UNCHANGED reports
  BY DEF LogAndGoOn, Abort, feedbackVars
<1>8. \/ UNCHANGED reports
      \/ \E p \in Procs : CreateReport(p) \/ ReviewReport(p) \/ DeleteAll(p)
  BY <1>6, <1>7, NextCases DEF feedbackVars
<1>9. QED BY <1>2, <1>3, <1>4, <1>5, <1>8

\* What a review in flight knows of its report and post.
Reviews(r) ==
    /\ r.pc # "deleteThread"
    /\ r.pc = "report" => r.post \in Posts
    /\ r.pc \in {"reviewRemove", "review"} => r.row \in Reports /\ r.post = reports[r.row].post
    /\ r.pc = "review" /\ r.verdict = "reviewed" => posts[r.post].removed

ReviewInv ==
    "deleteThread" \notin kinds =>
      /\ \A k \in Reports : reports[k].status = "reviewed" => posts[reports[k].post].removed
      /\ \A k \in Reports : reports[k].post \in Posts
      /\ \A p \in Procs : Reviews(req[p])

LEMMA ReviewStep ==
    ASSUME TypeInv, ReviewInv, [Next]_vars
    PROVE  ReviewInv'
<1>1. CASE UNCHANGED vars
  BY <1>1 DEF vars, baseVars, feedbackVars, ReviewInv, Reviews, Reports, Posts
<1>2. ASSUME Next, "deleteThread" \notin kinds
      PROVE  ReviewInv'
  <2>1. /\ \A k \in Reports : reports[k].status = "reviewed" => posts[reports[k].post].removed
        /\ \A p \in Procs : Reviews(req[p])
    BY <1>2 DEF ReviewInv
  <2>2. \A p \in Procs : ~DeleteAll(p)
    BY <2>1 DEF DeleteAll, DeleteThread, At, Reviews
  <2>3. \A i \in Posts : i \in Posts' /\ (posts[i].removed => posts'[i].removed)
    BY <1>2, <2>2, PostsMove
  <2>4. \A k \in Reports : k \in Reports' /\ reports'[k].post = reports[k].post
    BY <1>2, <2>2, ReportsMove
  <2>5. \A k \in Reports : reports[k].post \in Posts
    BY <1>2 DEF ReviewInv
  <2>6. ASSUME NEW k \in Reports', reports'[k].status = "reviewed"
        PROVE  posts'[reports'[k].post].removed
    <3>1. CASE k \in Reports /\ reports[k].status = "reviewed"
      BY <2>1, <2>3, <2>4, <2>5, <3>1
    <3>2. ASSUME NEW p \in Procs, At(p, "review"), req[p].row = k, k \in Reports,
                 req[p].verdict = "reviewed"
          PROVE  posts'[reports'[k].post].removed
      <4>1. posts[reports[k].post].removed
        BY <2>1, <3>2 DEF Reviews, At
      <4>2. QED BY <2>3, <2>4, <2>5, <3>2, <4>1
    <3>3. QED BY <1>2, <2>6, <3>1, <3>2, StatusMoves
  <2>7. ASSUME NEW r, Reviews(r)
        PROVE  Reviews(r)'
    BY <2>3, <2>4, <2>5, <2>7 DEF Reviews
  <2>8. ASSUME NEW p \in Procs, NEW r \in Request(PCs), Fits(r), req' = [req EXCEPT ![p] = r],
               Reviews(r)'
        PROVE  \A q \in Procs : Reviews(req[q])'
    <3>1. req'[p] = r /\ \A q \in Procs \ {p} : req'[q] = req[q]
      BY <2>8, RequestStep
    <3>2. ASSUME NEW q \in Procs \ {p}
          PROVE  Reviews(req[q])'
      <4>1. PICK s : s = req[q]
        OBVIOUS
      <4>2. Reviews(s)'
        BY <2>1, <2>7, <4>1
      <4>3. QED BY <3>1, <4>1, <4>2 DEF Reviews
    <3>3. QED BY <2>8, <3>1, <3>2 DEF Reviews
  <2>9. ASSUME NEW p \in Procs, Reads(p)
        PROVE  \A q \in Procs : Reviews(req[q])'
    <3>1. PICK r \in Request(PCs) : Fits(r) /\ req' = [req EXCEPT ![p] = r] /\ Begins(r)
      BY <2>9, StartStep
    <3>2. Reviews(r)
      BY <1>2, <3>1 DEF Begins, Reviews
    <3>3. QED BY <2>7, <2>8, <3>1, <3>2
  <2>10. ASSUME NEW p \in Procs, Writes(p)
         PROVE  \A q \in Procs : Reviews(req[q])'
    <3>1. PICK r \in Request(PCs) : /\ Fits(r) /\ req' = [req EXCEPT ![p] = r]
                                    /\ Moves(req[p], r)
      BY <2>10, WriteStep
    <3>2. /\ req \in [Procs -> Request(PCs)] /\ req[p] \in Request(PCs) /\ req'[p] = r
          /\ Reviews(req[p]) /\ req[p].pc # "deleteThread"
      BY <2>1, <3>1 DEF TypeInv, TypeOK, Reviews
    <3>3. CASE r = req[p]
      BY <2>7, <2>8, <3>1, <3>2, <3>3
    <3>4. CASE r.pc \notin {"report", "reviewRemove", "review", "deleteThread"}
      <4>1. Reviews(r)'
        BY <3>4 DEF Reviews
      <4>2. QED BY <2>8, <3>1, <4>1
    <3>5. CASE req[p].pc = "reviewRemove" /\ r.pc = "review" /\ r # req[p]
      <4>1. r.row = req[p].row /\ r.post = req[p].post
        BY <3>1, <3>2, <3>5, MovesFields DEF NoRequest
      <4>2. ReviewRemove(p)
        <5>1. ~Finish(p) /\ ~UNCHANGED req
          BY <3>2, <3>5 DEF Finish, NoRequest
        <5>2. QED BY <2>10, <3>2, <3>5, <5>1 DEF Writes, FeedbackWrites, FollowingWrites,
                MessageWrites, ReactDelete, ReactInsert, CreateReport, ReviewReport, CreateThread,
                CreatePost, CreatePostFails, UpdateLastPost, GetDraftByThread, DeleteDraft,
                MarkThreadRead, ListPosts, SaveDraft, SendMessage, ViewMessage, MarkPMRead, Hide,
                DeletePost, DeleteThread, DeleteThreadAlone, LogAndGoOn, Abort, At, Start
      <4>3. r.row \in Reports /\ r.post = reports[r.row].post /\ r.post \in Posts
        BY <2>5, <3>2, <3>5, <4>1 DEF Reviews
      <4>4. posts'[r.post].removed
        BY <4>1, <4>2, <4>3, RemovedStays DEF ReviewRemove
      <4>5. Reviews(r)'
        BY <2>4, <3>5, <4>3, <4>4 DEF Reviews
      <4>6. QED BY <2>8, <3>1, <4>5
    <3>6. QED BY <3>1, <3>2, <3>3, <3>4, <3>5, MovesFields DEF NoRequest
  <2>11. \A q \in Procs : Reviews(req[q])'
    <3>1. CASE UNCHANGED req
      <4>1. ASSUME NEW q \in Procs
            PROVE  Reviews(req[q])'
        <5>1. PICK s : s = req[q]
          OBVIOUS
        <5>2. Reviews(s)'
          BY <2>1, <2>7, <5>1
        <5>3. QED BY <3>1, <5>1, <5>2 DEF Reviews
      <4>2. QED BY <4>1
    <3>2. (\E p \in Procs : Reads(p) \/ Writes(p)) \/ UNCHANGED req
      BY <1>2, NextCases DEF Writes, DeleteAll, Tick, CleanupOldDrafts
    <3>3. QED BY <2>9, <2>10, <3>1, <3>2
  <2>12. \A k \in Reports' : reports'[k].post \in Posts'
    BY <1>2, <2>1, <2>2, <2>3, <2>4, <2>5, NewReports DEF Reviews, At
  <2>13. QED BY <2>6, <2>11, <2>12 DEF ReviewInv
<1>3. CASE Next /\ "deleteThread" \in kinds
  BY <1>3, KindsStay DEF ReviewInv
<1>4. QED BY <1>1, <1>2, <1>3

\* As long as no thread is deleted, a report that was closed as reviewed had
\* its post removed.
THEOREM ReviewsRemove == Spec => []ReviewedMeansRemoved
<1>1. Init => ReviewInv
  BY DEF Init, BaseInit, FeedbackInit, ReviewInv, Reviews, Reports, NoRequest
<1>2. TypeInv /\ ReviewInv /\ [Next]_vars => ReviewInv'
  BY ReviewStep
<1>3. ReviewInv => ReviewedMeansRemoved
  BY DEF ReviewInv, ReviewedMeansRemoved
<1>4. QED BY <1>1, <1>2, <1>3, TypeInvHolds, PTL DEF Spec

-----------------------------------------------------------------------------
(* Drafts that replies used up.                                            *)

\* Nothing changes for the worse while drafts and pairs only go and no reply
\* that is about to delete its draft moves.
LEMMA UsedUpStays ==
    ASSUME DraftsAreUsedUp, Shrunk, posted' \subseteq posted,
           \A q \in Procs : At(q, "draftDelete") => req'[q] = req[q]
    PROVE  DraftsAreUsedUp'
<1> SUFFICES ASSUME NEW d \in Drafts', <<drafts'[d].user, drafts'[d].thread>> \in posted'
             PROVE  \E q \in Procs : /\ At(q, "draftDelete")' /\ req'[q].row = d
                                     /\ req'[q].user = drafts'[d].user
                                     /\ req'[q].thread = drafts'[d].thread
  BY DEF DraftsAreUsedUp
<1>1. d \in Drafts /\ drafts'[d] = drafts[d] /\ <<drafts[d].user, drafts[d].thread>> \in posted
  BY DEF Shrunk
<1>2. PICK q \in Procs : /\ At(q, "draftDelete") /\ req[q].row = d
                         /\ req[q].user = drafts[d].user /\ req[q].thread = drafts[d].thread
  BY <1>1 DEF DraftsAreUsedUp
<1>3. QED BY <1>1, <1>2 DEF At

\* A reply looks for its draft; by OneDraftEach it finds the only one.
LEMMA UsedUpRead ==
    ASSUME TypeInv, OneDraftEach, DraftsAreUsedUp, NEW p \in Procs, GetDraftByThread(p)
    PROVE  DraftsAreUsedUp'
<1>1. PICK old \in Request(PCs) : old = req[p] /\ old.pc = "draftRead"
  BY DEF GetDraftByThread, At, TypeInv, TypeOK
<1>2. UNCHANGED drafts
  BY DEF GetDraftByThread
<1>3. CASE DraftsAt(req[p].user, req[p].thread) = {}
  <2>1. posted' = posted /\ Finish(p)
    BY <1>3 DEF GetDraftByThread
  <2>2. \A q \in Procs : At(q, "draftDelete") => req'[q] = req[q]
    BY <1>1, <2>1 DEF Finish, At, TypeInv, TypeOK
  <2>3. QED BY <1>2, <2>1, <2>2, UsedUpStays DEF Shrunk, Drafts
<1>4. CASE DraftsAt(req[p].user, req[p].thread) # {}
  <2>1. PICK d0 \in DraftsAt(old.user, old.thread) :
          req' = [req EXCEPT ![p].pc = "draftDelete", ![p].row = d0]
    BY <1>1, <1>4 DEF GetDraftByThread
  <2>2. posted' = posted \cup {<<old.user, old.thread>>}
    BY <1>1, <1>4 DEF GetDraftByThread
  <2>3. d0 \in Drafts /\ drafts[d0].user = old.user /\ drafts[d0].thread = old.thread
    BY <2>1 DEF DraftsAt
  <2>4. PICK new : new = [old EXCEPT !.pc = "draftDelete", !.row = d0]
    OBVIOUS
  <2>5. /\ new.pc = "draftDelete" /\ new.row = d0
        /\ new.user = old.user /\ new.thread = old.thread
    BY <2>4 DEF Request
  <2>6. req'[p] = new /\ \A q \in Procs \ {p} : req'[q] = req[q]
    BY <1>1, <2>1, <2>4 DEF TypeInv, TypeOK
  <2>7. SUFFICES ASSUME NEW d \in Drafts, <<drafts[d].user, drafts[d].thread>> \in posted'
                 PROVE  \E q \in Procs : /\ req'[q].pc = "draftDelete" /\ req'[q].row = d
                                         /\ req'[q].user = drafts[d].user
                                         /\ req'[q].thread = drafts[d].thread
    BY <1>2 DEF DraftsAreUsedUp, Drafts, At
  <2>8. CASE drafts[d].user = old.user /\ drafts[d].thread = old.thread
    <3>1. d = d0
      BY <2>3, <2>7, <2>8 DEF OneDraftEach
    <3>2. QED BY <2>5, <2>6, <2>8, <3>1
  <2>9. CASE ~(drafts[d].user = old.user /\ drafts[d].thread = old.thread)
    <3>1. <<drafts[d].user, drafts[d].thread>> \in posted
      BY <2>2, <2>7, <2>9
    <3>2. PICK q \in Procs : /\ At(q, "draftDelete") /\ req[q].row = d
                             /\ req[q].user = drafts[d].user
                             /\ req[q].thread = drafts[d].thread
      BY <2>7, <3>1 DEF DraftsAreUsedUp
    <3>3. q # p
      BY <1>1, <3>2 DEF At
    <3>4. QED BY <2>6, <3>2, <3>3 DEF At
  <2>10. QED BY <2>8, <2>9
<1>5. QED BY <1>3, <1>4

\* The reply deletes the row it read, and only that one.
LEMMA UsedUpDelete ==
    ASSUME TypeInv, DraftsAreUsedUp, NEW p \in Procs, DeleteDraft(p)
    PROVE  DraftsAreUsedUp'
<1>1. Shrunk /\ Drafts' = Drafts \ {req[p].row}
  BY Withdrawn DEF DeleteDraft
<1>2. UNCHANGED posted /\ \A q \in Procs \ {p} : req'[q] = req[q]
  BY DEF DeleteDraft, Finish, TypeInv, TypeOK
<1>3. SUFFICES ASSUME NEW d \in Drafts', <<drafts'[d].user, drafts'[d].thread>> \in posted'
               PROVE  \E q \in Procs : /\ req'[q].pc = "draftDelete" /\ req'[q].row = d
                                       /\ req'[q].user = drafts'[d].user
                                       /\ req'[q].thread = drafts'[d].thread
  BY DEF DraftsAreUsedUp, At
<1>4. /\ d \in Drafts /\ drafts'[d] = drafts[d] /\ d # req[p].row
      /\ <<drafts[d].user, drafts[d].thread>> \in posted
  BY <1>1, <1>2, <1>3 DEF Shrunk
<1>5. PICK q \in Procs : /\ At(q, "draftDelete") /\ req[q].row = d
                         /\ req[q].user = drafts[d].user /\ req[q].thread = drafts[d].thread
  BY <1>4 DEF DraftsAreUsedUp
<1>6. q # p
  BY <1>4, <1>5
<1>7. QED BY <1>2, <1>4, <1>5, <1>6 DEF At

\* A draft that is saved was not looked for since.
LEMMA UsedUpSave ==
    ASSUME TypeInv, DraftsAreUsedUp, NEW p \in Procs, SaveDraft(p)
    PROVE  DraftsAreUsedUp'
<1>1. PICK u \in Users, t \in ThreadIds \cup {None} :
         UpsertDraft(u, t) /\ posted' = posted \ {<<u, t>>}
  BY DEF SaveDraft
<1>2. UNCHANGED req
  BY DEF SaveDraft
<1>3. SUFFICES ASSUME NEW d \in Drafts', <<drafts'[d].user, drafts'[d].thread>> \in posted'
               PROVE  \E q \in Procs : /\ req[q].pc = "draftDelete" /\ req[q].row = d
                                       /\ req[q].user = drafts'[d].user
                                       /\ req[q].thread = drafts'[d].thread
  BY <1>2 DEF DraftsAreUsedUp, At
<1>4. d \in Drafts /\ drafts'[d] = drafts[d]
  <2>1. CASE UNCHANGED drafts
    BY <1>3, <2>1 DEF Drafts
  <2>2. CASE \E k \in RowIds : /\ Drafts' = Drafts \cup {k}
                               /\ drafts'[k].user = u /\ drafts'[k].thread = t
                               /\ \A e \in Drafts : drafts'[e] = drafts[e]
    BY <1>1, <1>3, <2>2
  <2>3. QED BY <1>1, <2>1, <2>2, Upserted
<1>5. QED BY <1>1, <1>3, <1>4 DEF DraftsAreUsedUp, At

\* A request that is cut off excuses the draft it was about to delete.
LEMMA UsedUpAbort ==
    ASSUME TypeInv, DraftsAreUsedUp, NEW p \in Procs, LogAndGoOn(p) \/ Abort(p)
    PROVE  DraftsAreUsedUp'
<1>1. UNCHANGED drafts /\ posted' \subseteq posted
  BY UndoneTables
<1>2. \A q \in Procs \ {p} : req'[q] = req[q]
  BY DEF LogAndGoOn, Abort, Goto, Finish, TypeInv, TypeOK
<1>3. CASE ~At(p, "draftDelete")
  BY <1>1, <1>2, <1>3, UsedUpStays DEF Shrunk, Drafts
<1>4. CASE At(p, "draftDelete")
  <2>1. Abort(p)
    BY <1>4 DEF LogAndGoOn, At
  <2>2. posted' = posted \ {<<req[p].user, req[p].thread>>}
    BY <1>4, <2>1 DEF Abort, Undone
  <2>3. SUFFICES ASSUME NEW d \in Drafts, <<drafts[d].user, drafts[d].thread>> \in posted'
                 PROVE  \E q \in Procs : /\ req'[q].pc = "draftDelete" /\ req'[q].row = d
                                         /\ req'[q].user = drafts[d].user
                                         /\ req'[q].thread = drafts[d].thread
    BY <1>1 DEF DraftsAreUsedUp, Drafts, At
  <2>4. PICK q \in Procs : /\ At(q, "draftDelete") /\ req[q].row = d
                           /\ req[q].user = drafts[d].user /\ req[q].thread = drafts[d].thread
    BY <2>2, <2>3 DEF DraftsAreUsedUp
  <2>5. q # p
    BY <2>2, <2>3, <2>4
  <2>6. QED BY <1>2, <2>4, <2>5 DEF At
<1>5. QED BY <1>3, <1>4

\* Every other step leaves the replies that are about to delete alone.
LEMMA UsedUpStep ==
    ASSUME TypeInv, OneDraftEach, DraftsAreUsedUp, [Next]_vars
    PROVE  DraftsAreUsedUp'
<1>1. CASE UNCHANGED vars
  BY <1>1, UsedUpStays
     DEF vars, baseVars, followingVars, Shrunk, Drafts
<1>2. ASSUME NEW p \in Procs,
             Reads(p) \/ FeedbackWrites(p) \/ MessageWrites(p) \/ DeletePost(p),
             UNCHANGED followingVars
      PROVE  DraftsAreUsedUp'
  <2>1. ~At(p, "draftDelete")
    BY <1>2 DEF Reads, FeedbackWrites, MessageWrites, ReactRead, ReportRead, ReviewRead,
                ReplyRead, ViewRead, DiscardRead, DeleteMessage, RemovePostRead,
                DeleteThreadRead, ReactDelete, ReactInsert, CreateReport, ReviewRemove,
                ReviewReport, SendMessage, ViewMessage, MarkPMRead, Hide, DeletePost, Start, At
  <2>2. PICK r \in Request(PCs) : req' = [req EXCEPT ![p] = r]
    BY <1>2, StartStep, WriteStep DEF Writes
  <2>3. \A q \in Procs : At(q, "draftDelete") => req'[q] = req[q]
    BY <2>1, <2>2 DEF TypeInv, TypeOK
  <2>4. QED BY <1>2, <2>3, UsedUpStays DEF followingVars, Shrunk, Drafts
<1>3. ASSUME NEW p \in Procs, FollowingWrites(p)
      PROVE  DraftsAreUsedUp'
  <2>1. CASE GetDraftByThread(p) \/ DeleteDraft(p) \/ SaveDraft(p)
    BY <2>1, UsedUpRead, UsedUpDelete, UsedUpSave
  <2>2. CASE \/ CreateThread(p) \/ CreatePost(p) \/ CreatePostFails(p) \/ UpdateLastPost(p)
             \/ MarkThreadRead(p) \/ ListPosts(p)
    <3>1. ~At(p, "draftDelete") /\ UNCHANGED <<drafts, posted>>
      BY <2>2 DEF CreateThread, CreatePost, CreatePostFails, UpdateLastPost, MarkThreadRead,
                  ListPosts, Start, At
    <3>2. PICK r \in Request(PCs) : req' = [req EXCEPT ![p] = r]
      BY <1>3, WriteStep DEF Writes
    <3>3. \A q \in Procs : At(q, "draftDelete") => req'[q] = req[q]
      BY <3>1, <3>2 DEF TypeInv, TypeOK
    <3>4. QED BY <3>1, <3>3, UsedUpStays DEF Shrunk, Drafts
  <2>3. QED BY <1>3, <2>1, <2>2 DEF FollowingWrites
<1>4. ASSUME NEW p \in Procs, DeleteAll(p)
      PROVE  DraftsAreUsedUp'
  <2>1. Shrunk /\ posted' \subseteq posted
    BY <1>4, Withdrawn DEF DeleteAll, CascadeFollowing
  <2>2. \A q \in Procs : At(q, "draftDelete") => req'[q] = req[q]
    BY <1>4 DEF DeleteAll, DeleteThread, Finish, At, TypeInv, TypeOK
  <2>3. QED BY <2>1, <2>2, UsedUpStays
<1>5. ASSUME NEW p \in Procs, DeleteThreadAlone(p), UNCHANGED followingVars
      PROVE  DraftsAreUsedUp'
  <2>1. \A q \in Procs : At(q, "draftDelete") => req'[q] = req[q]
    BY <1>5 DEF DeleteThreadAlone, Finish, At, TypeInv, TypeOK
  <2>2. QED BY <1>5, <2>1, UsedUpStays DEF followingVars, Shrunk, Drafts
<1>6. CASE Tick /\ UNCHANGED followingVars
  BY <1>6, UsedUpStays DEF Tick, followingVars, Shrunk, Drafts
<1>7. CASE CleanupOldDrafts
  <2>1. Shrunk
    BY <1>7, Withdrawn DEF CleanupOldDrafts
  <2>2. QED BY <1>7, <2>1, UsedUpStays DEF CleanupOldDrafts
<1>8. CASE Next
  BY <1>2, <1>3, <1>4, <1>6, <1>7, <1>8, <1>5, UsedUpAbort, NextCases
<1>9. QED BY <1>1, <1>8

\* DraftsAreUsedUp, for any number of users and requests: a draft that a
\* reply looked for is gone, was saved again, or is about to be deleted by that
\* reply, however the saves, the discards and the daily job interleave.
THEOREM DraftsGetUsedUp == Spec => []DraftsAreUsedUp
<1>1. Init => OneDraftEach /\ DraftsAreUsedUp
  BY DEF Init, FollowingInit, OneDraftEach, DraftsAreUsedUp, Drafts
<1>2. TypeInv /\ OneDraftEach /\ DraftsAreUsedUp /\ [Next]_vars
        => (OneDraftEach /\ DraftsAreUsedUp)'
  BY OneDraftStep, UsedUpStep
<1>3. QED BY <1>1, <1>2, TypeInvHolds, PTL DEF Spec

-----------------------------------------------------------------------------
(* Feedback implements Toggling.                                           *)

\* What a request asks of the abstract toggle.
Asks(r) == IF r.pc \in {"react", "reactInsert"} THEN <<r.post, r.user>> ELSE None

\* A step of one goroutine changes what that one asks and nobody else.
LEMMA AskedMoves ==
    ASSUME TypeInv, NEW p \in Procs, NEW r, req' = [req EXCEPT ![p] = r]
    PROVE  /\ [q \in Procs |-> Reacting(q)]'
                = [[q \in Procs |-> Reacting(q)] EXCEPT ![p] = Asks(r)]
           /\ Reacting(p) = Asks(req[p])
<1>1. \A q \in Procs : Reacting(q) = Asks(req[q]) /\ Reacting(q)' = Asks(req'[q])
  BY DEF Reacting, Pair, Asks
<1>2. req'[p] = r /\ \A q \in Procs \ {p} : req'[q] = req[q]
  BY DEF TypeInv, TypeOK
<1>3. [q \in Procs |-> Reacting(q)]'
        = [q \in Procs |-> IF q = p THEN Asks(r) ELSE Reacting(q)]
  BY <1>1, <1>2
<1>4. [[q \in Procs |-> Reacting(q)] EXCEPT ![p] = Asks(r)]
        = [q \in Procs |-> IF q = p THEN Asks(r) ELSE Reacting(q)]
  OBVIOUS
<1>5. QED BY <1>1, <1>3, <1>4

\* One that asks for the same before and after leaves the requests alone.
LEMMA AskedStays ==
    ASSUME TypeInv, NEW p \in Procs, NEW r, req' = [req EXCEPT ![p] = r],
           Asks(r) = Asks(req[p])
    PROVE  UNCHANGED [q \in Procs |-> Reacting(q)]
BY AskedMoves

\* The INSERT of one request cannot be told from a toggle, or a failure.
LEMMA ReactionSteps ==
    ASSUME TypeInv, NEW p \in Procs,
           ReactRead(p) \/ ReactDelete(p) \/ ReactInsert(p)
    PROVE  [Toggle!Next]_Toggle!vars
<1>1. UNCHANGED Posts
  BY DEF ReactRead, ReactDelete, ReactInsert, Posts
<1>2. ASSUME ReactRead(p) PROVE Toggle!Next
  <2>1. PICK u \in Users, i \in PostIds :
          Start(p, "react", [NoRequest EXCEPT !.pc = "react", !.user = u, !.post = i])
    BY <1>2 DEF ReactRead, Posts
  <2>2. PICK r : r = [NoRequest EXCEPT !.pc = "react", !.user = u, !.post = i]
    OBVIOUS
  <2>3. r.pc = "react" /\ r.user = u /\ r.post = i
    BY <2>2 DEF NoRequest
  <2>4. At(p, "idle") /\ req' = [req EXCEPT ![p] = r]
    BY <2>1, <2>2 DEF Start
  <2>5. Asks(r) = <<i, u>> /\ Asks(req[p]) = None
    BY <2>3, <2>4 DEF Asks, At
  <2>6. Toggle!Ask(p, <<i, u>>)
    BY <1>1, <1>2, <2>4, <2>5, AskedMoves DEF Toggle!Ask, ReactRead
  <2>7. <<i, u>> \in PostIds \X Users
    BY <2>1
  <2>8. QED BY <2>6, <2>7 DEF Toggle!Next
<1>3. ASSUME ReactDelete(p) \/ ReactInsert(p), Finish(p)
      PROVE  Toggle!Next
  <2>1. PICK pair \in PostIds \X Users : pair = Pair(p) /\ Asks(req[p]) = pair /\ pair # None
    BY <1>3, FeedbackOK DEF ReactDelete, ReactInsert, At, Asks, Pair, TypeInv, Fits
  <2>2. Asks(NoRequest) = None
    BY DEF Asks, NoRequest
  <2>3. /\ Reacting(p) = pair
        /\ [q \in Procs |-> Reacting(q)]'
             = [[q \in Procs |-> Reacting(q)] EXCEPT ![p] = None]
    BY <1>3, <2>1, <2>2, AskedMoves DEF Finish
  <2>4. \/ reactions' = reactions
        \/ pair \in reactions /\ reactions' = reactions \ {pair}
        \/ pair \notin reactions /\ reactions' = reactions \cup {pair}
    BY <1>3, <2>1 DEF ReactDelete, ReactInsert
  <2>5. Toggle!Fail(p) \/ Toggle!Toggle(p)
    BY <1>1, <2>1, <2>3, <2>4 DEF Toggle!Fail, Toggle!Toggle, Toggle!Toggled
  <2>6. QED BY <2>5 DEF Toggle!Next
<1>4. ASSUME ReactDelete(p), ~Finish(p)
      PROVE  UNCHANGED Toggle!vars
  <2>1. Pair(p) \notin reactions /\ Goto(p, "reactInsert") /\ UNCHANGED reactions
    BY <1>4 DEF ReactDelete
  <2>2. PICK old \in Request(PCs) : old = req[p] /\ old.pc = "react"
    BY <1>4 DEF ReactDelete, At, TypeInv, TypeOK
  <2>3. PICK r : r = [old EXCEPT !.pc = "reactInsert"]
    OBVIOUS
  <2>4. req' = [req EXCEPT ![p] = r]
    BY <2>1, <2>2, <2>3 DEF Goto, TypeInv, TypeOK
  <2>5. Asks(r) = Asks(old)
    BY <2>2, <2>3 DEF Asks, Request
  <2>6. QED BY <1>1, <2>1, <2>2, <2>4, <2>5, AskedStays DEF Toggle!vars
<1>5. QED BY <1>2, <1>3, <1>4 DEF ReactInsert

\* A request that is cut off fails, if it was toggling.
LEMMA CutOffSteps ==
    ASSUME TypeInv, NEW p \in Procs, LogAndGoOn(p) \/ Abort(p)
    PROVE  [Toggle!Next]_Toggle!vars
<1>1. UNCHANGED <<Posts, reactions>>
  BY DEF LogAndGoOn, Abort, feedbackVars, Posts
<1>2. PICK r : req' = [req EXCEPT ![p] = r] /\ (Asks(r) = Asks(req[p]) \/ Asks(r) = None)
  <2>1. CASE Abort(p)
    <3>1. Asks(NoRequest) = None
      BY DEF Asks, NoRequest
    <3>2. QED BY <2>1, <3>1 DEF Abort, Finish
  <2>2. CASE LogAndGoOn(p)
    <3>1. PICK old \in Request(PCs) : old = req[p] /\ old.pc \in {"lastPost", "viewMark"}
      BY <2>2 DEF LogAndGoOn, At, TypeInv, TypeOK
    <3>2. PICK label \in {"draftRead", "viewList"} : Goto(p, label)
      BY <2>2 DEF LogAndGoOn
    <3>3. PICK r : r = [old EXCEPT !.pc = label]
      OBVIOUS
    <3>4. Asks(r) = None
      BY <3>1, <3>2, <3>3 DEF Asks, Request
    <3>5. QED BY <3>1, <3>2, <3>3, <3>4 DEF Goto, TypeInv, TypeOK
  <2>3. QED BY <2>1, <2>2
<1>3. CASE Asks(r) = Asks(req[p])
  BY <1>1, <1>2, <1>3, AskedStays DEF Toggle!vars
<1>4. CASE Asks(r) # Asks(req[p])
  <2>1. Asks(r) = None /\ Asks(req[p]) # None
    BY <1>2, <1>4
  <2>2. Toggle!Fail(p)
    BY <1>1, <1>2, <2>1, AskedMoves DEF Toggle!Fail
  <2>3. QED BY <2>2 DEF Toggle!Next
<1>5. QED BY <1>3, <1>4

\* The requests that toggle nothing, before and after their step.
LEMMA OthersAskNothing ==
    ASSUME TypeInv, NEW p \in Procs,
           \/ Reads(p) /\ ~ReactRead(p)
           \/ FeedbackWrites(p) /\ ~ReactDelete(p) /\ ~ReactInsert(p)
           \/ FollowingWrites(p) \/ MessageWrites(p)
           \/ DeletePost(p) \/ DeleteThread(p) \/ DeleteThreadAlone(p)
    PROVE  UNCHANGED [q \in Procs |-> Reacting(q)]
<1>1. CASE Reads(p) /\ ~ReactRead(p)
  <2>1. PICK r \in Request(PCs) : req' = [req EXCEPT ![p] = r] /\ Begins(r)
    BY <1>1, StartStep
  <2>2. At(p, "idle")
    BY <1>1 DEF Reads, ReportRead, ReviewRead, ReplyRead, ViewRead, DiscardRead,
                DeleteMessage, RemovePostRead, DeleteThreadRead, Start
  <2>3. req'[p].pc # "react"
    BY <1>1 DEF Reads, ReportRead, ReviewRead, ReplyRead, ViewRead, DiscardRead,
                DeleteMessage, RemovePostRead, DeleteThreadRead, Start, NoRequest,
                TypeInv, TypeOK
  <2>4. Asks(r) = None /\ Asks(req[p]) = None
    BY <2>1, <2>2, <2>3 DEF Begins, Asks, At, TypeInv, TypeOK
  <2>5. QED BY <2>1, <2>4, AskedStays
<1>2. CASE \/ FeedbackWrites(p) /\ ~ReactDelete(p) /\ ~ReactInsert(p)
           \/ FollowingWrites(p) \/ MessageWrites(p)
           \/ DeletePost(p) \/ DeleteThread(p) \/ DeleteThreadAlone(p)
  <2>1. PICK r \in Request(PCs) : req' = [req EXCEPT ![p] = r] /\ Moves(req[p], r)
    BY <1>2, WriteStep DEF Writes
  <2>2. req[p].pc \notin {"react", "reactInsert"}
    BY <1>2 DEF FeedbackWrites, CreateReport, ReviewRemove, ReviewReport, FollowingWrites,
                CreateThread, CreatePost, CreatePostFails, UpdateLastPost, GetDraftByThread,
                DeleteDraft, MarkThreadRead, ListPosts, SaveDraft, MessageWrites,
                SendMessage, ViewMessage, MarkPMRead, Hide, DeletePost, DeleteThread,
                DeleteThreadAlone, Start, At
  <2>3. r.pc \notin {"react", "reactInsert"}
    <3>1. PICK old \in Request(PCs) : old = req[p]
      BY DEF TypeInv, TypeOK
    <3>2. QED BY <2>1, <2>2, <3>1, MovesFields DEF NoRequest
  <2>4. QED BY <2>1, <2>2, <2>3, AskedStays DEF Asks
<1>3. QED BY <1>1, <1>2

\* Every step of Members is a step of the toggle or leaves it as it is.
LEMMA ToggleStep ==
    ASSUME TypeInv, [Next]_vars
    PROVE  [Toggle!Next]_Toggle!vars
<1>1. CASE UNCHANGED vars
  BY <1>1 DEF vars, baseVars, feedbackVars, Toggle!vars, Posts, Reacting, Pair
<1>2. Posts \subseteq PostIds /\ Posts' \subseteq PostIds
  BY DEF Posts
<1>3. ASSUME NEW p \in Procs, \/ Reads(p) /\ ~ReactRead(p)
                              \/ FeedbackWrites(p) /\ ~ReactDelete(p) /\ ~ReactInsert(p)
                              \/ FollowingWrites(p) \/ MessageWrites(p) \/ DeletePost(p)
                              \/ DeleteThreadAlone(p),
             UNCHANGED reactions, UNCHANGED Posts
      PROVE  UNCHANGED Toggle!vars
  BY <1>3, OthersAskNothing DEF Toggle!vars
<1>4. ASSUME NEW p \in Procs, FollowingWrites(p), UNCHANGED reactions
      PROVE  [Toggle!Next]_Toggle!vars
  <2>1. CASE CreatePost(p)
    <3>1. Posts \subseteq Posts'
      BY <2>1, PostInserted
    <3>2. reactions = {pair \in reactions : pair[1] \notin Posts \ Posts'}
      BY <3>1
    <3>3. Toggle!Replace(Posts')
      BY <1>4, <3>2, OthersAskNothing DEF Toggle!Replace
    <3>4. QED BY <1>2, <3>3 DEF Toggle!Next
  <2>2. CASE ~CreatePost(p)
    <3>1. UNCHANGED Posts
      BY <1>4, <2>2 DEF FollowingWrites, CreateThread, CreatePostFails, UpdateLastPost,
                        GetDraftByThread, DeleteDraft, MarkThreadRead, ListPosts, SaveDraft,
                        Posts
    <3>2. QED BY <1>3, <1>4, <3>1
  <2>3. QED BY <2>1, <2>2
<1>5. ASSUME NEW p \in Procs, DeleteAll(p)
      PROVE  Toggle!Next
  <2>1. PICK gone : gone = PostsOf(req[p].thread)
    OBVIOUS
  <2>2. posts' = Without(posts, gone) /\ reactions' = {pair \in reactions : pair[1] \notin gone}
    BY <1>5, <2>1 DEF DeleteAll, DeleteThread, CascadeFeedback
  <2>3. Posts' = Posts \ gone
    BY <2>2 DEF Posts, Without, TypeInv, TypeOK
  <2>4. reactions' = {pair \in reactions : pair[1] \notin Posts \ Posts'}
    BY <2>1, <2>2, <2>3 DEF PostsOf
  <2>5. Toggle!Replace(Posts')
    BY <1>5, <2>4, OthersAskNothing DEF DeleteAll, Toggle!Replace
  <2>6. QED BY <1>2, <2>5 DEF Toggle!Next
<1>6. ASSUME NEW p \in Procs, Reads(p), UNCHANGED <<posts, feedbackVars>>
      PROVE  [Toggle!Next]_Toggle!vars
  BY <1>3, <1>6, ReactionSteps DEF feedbackVars, Posts
<1>7. ASSUME NEW p \in Procs, FeedbackWrites(p)
      PROVE  [Toggle!Next]_Toggle!vars
  <2>1. CASE CreateReport(p) \/ ReviewReport(p)
    BY <1>3, <1>7, <2>1, ReactionSteps DEF CreateReport, ReviewReport, Posts
  <2>2. CASE ReviewRemove(p)
    BY <1>3, <1>7, <2>2, ReactionSteps, RemovedStays DEF ReviewRemove
  <2>3. QED BY <1>7, <2>1, <2>2, ReactionSteps DEF FeedbackWrites
<1>8. ASSUME NEW p \in Procs, MessageWrites(p), UNCHANGED feedbackVars
      PROVE  UNCHANGED Toggle!vars
  <2>1. UNCHANGED <<posts, reactions>>
    BY <1>8 DEF MessageWrites, SendMessage, ViewMessage, MarkPMRead, Hide, feedbackVars
  <2>2. QED BY <1>3, <1>8, <2>1 DEF Posts
<1>9. ASSUME NEW p \in Procs, DeletePost(p), UNCHANGED feedbackVars
      PROVE  UNCHANGED Toggle!vars
  BY <1>3, <1>9, RemovedStays DEF DeletePost, feedbackVars
<1>10. ASSUME NEW p \in Procs, DeleteThreadAlone(p), UNCHANGED feedbackVars
      PROVE  UNCHANGED Toggle!vars
  BY <1>3, <1>10 DEF DeleteThreadAlone, feedbackVars, Posts
<1>11. CASE (Tick \/ CleanupOldDrafts) /\ UNCHANGED feedbackVars
  BY <1>11 DEF Tick, CleanupOldDrafts, feedbackVars, Toggle!vars, Posts, Reacting, Pair
<1>12. CASE Next
  BY <1>4, <1>5, <1>6, <1>7, <1>8, <1>9, <1>11, <1>12, <1>10, CutOffSteps, NextCases
     DEF feedbackVars
<1>13. QED BY <1>1, <1>12

\* TogglesAreAtomic: although other requests run between the two statements of
\* ToggleReaction, every behaviour of the members is, seen through the
\* reactions table, one of a toggle that is a single step.
THEOREM FeedbackToggles == Spec => TogglesAreAtomic
<1>1. Init => Toggle!Init
  BY DEF Init, BaseInit, FeedbackInit, Toggle!Init, Posts, Reacting, NoRequest
<1>2. TypeInv /\ [Next]_vars => [Toggle!Next]_Toggle!vars
  BY ToggleStep
<1>3. QED BY <1>1, <1>2, TypeInvHolds, PTL DEF Spec, TogglesAreAtomic, Toggle!Spec

-----------------------------------------------------------------------------
(* Replies are announced.                                                  *)

\* The user has marked thread t read, and is about to be sent its posts.
Viewing(u, t) ==
    \E p \in Procs : At(p, "viewList") /\ req[p].user = u /\ req[p].thread = t

\* A reply inserted post i and is about to tell thread t of it.
Telling(i, t, s) ==
    \E p \in Procs : /\ At(p, "lastPost") /\ req[p].post = i
                     /\ req[p].thread = t /\ req[p].at = s

Behind(u, t, s) == marks[u][t] = None \/ marks[u][t] < s \/ Viewing(u, t)

Told(i, t, s) == threads[t].last >= s \/ Telling(i, t, s)

\* Of a post that user u neither saw nor may miss, u's mark of the thread is
\* older, and the thread has been told or is about to be.
FollowInv ==
    \A i \in Posts, u \in Users, t \in ThreadIds, s \in Times :
        /\ posts[i].thread = t /\ posts[i].stamp = s
        /\ <<u, i>> \notin settled /\ <<"thread", t>> \notin lost
        => Behind(u, t, s) /\ Told(i, t, s)

\* The thread of a post is there, unless it was lost.
LEMMA ThreadOfPost ==
    ASSUME TypeInv, NothingLeftBehind, NEW i \in Posts, <<"thread", posts[i].thread>> \notin lost
    PROVE  posts[i].thread \in Threads
BY DEF NothingLeftBehind, NoThread

LEMMA FollowInvShows ==
    ASSUME TypeInv, FollowInv
    PROVE  NewPostsAnnounced
<1> SUFFICES ASSUME NEW i \in Posts, NEW u \in Users, <<u, i>> \notin settled,
                    NEW t, t = posts[i].thread, t \in Threads, marks[u][t] # None,
                    <<"thread", t>> \notin lost,
                    \A p \in Procs :
                      /\ ~(At(p, "lastPost") /\ req[p].post = i)
                      /\ ~(At(p, "viewList") /\ req[p].user = u /\ req[p].thread = t)
             PROVE  Unread(u, t)
  BY DEF NewPostsAnnounced
<1>1. PICK s \in Times : s = posts[i].stamp
  BY DEF Posts, TypeInv, TypeOK, PostRow
<1>2. t \in ThreadIds /\ threads[t].last \in Times /\ marks[u][t] \in Times
  BY DEF Threads, TypeInv, TypeOK, FollowingTypeOK, ThreadRow
<1>3. Behind(u, t, s) /\ Told(i, t, s)
  BY <1>1, <1>2 DEF FollowInv
<1>4. marks[u][t] < s /\ threads[t].last >= s
  BY <1>3 DEF Behind, Told, Viewing, Telling
<1>5. QED BY <1>1, <1>2, <1>4, RequestsOK DEF Unread, Times

\* The steps that mark nothing, list nothing, insert nothing and tell no thread.
LEMMA FollowStays ==
    ASSUME FollowInv, lost \subseteq lost',
           \A i \in Posts' : /\ i \in Posts /\ posts'[i].thread = posts[i].thread
                             /\ posts'[i].stamp = posts[i].stamp
                             /\ <<"thread", posts[i].thread>> \notin lost'
                                  => threads'[posts[i].thread] = threads[posts[i].thread],
           \A i \in Posts', u \in Users : <<u, i>> \in settled => <<u, i>> \in settled',
           \A u \in Users, t \in ThreadIds : marks'[u][t] = marks[u][t] \/ marks'[u][t] = None,
           \A q \in Procs : At(q, "lastPost") \/ At(q, "viewList") => req'[q] = req[q]
    PROVE  FollowInv'
<1> SUFFICES ASSUME NEW i \in Posts', NEW u \in Users, NEW t \in ThreadIds, NEW s \in Times,
                    posts'[i].thread = t, posts'[i].stamp = s, <<u, i>> \notin settled',
                    <<"thread", t>> \notin lost'
             PROVE  Behind(u, t, s)' /\ Told(i, t, s)'
  BY DEF FollowInv
<1>1. Behind(u, t, s) /\ Told(i, t, s)
  BY DEF FollowInv
<1>2. (Viewing(u, t) => Viewing(u, t)') /\ (Telling(i, t, s) => Telling(i, t, s)')
  BY DEF Viewing, Telling, At
<1>3. Behind(u, t, s)'
  BY <1>1, <1>2 DEF Behind
<1>4. Told(i, t, s)'
  BY <1>1, <1>2 DEF Told
<1>5. QED BY <1>3, <1>4

\* A user who marks the thread read is about to be sent its posts.
LEMMA FollowMark ==
    ASSUME TypeInv, FollowInv, NEW p \in Procs, MarkThreadRead(p), lost \subseteq lost'
    PROVE  FollowInv'
<1>1. PICK old \in Request(PCs) : old = req[p] /\ old.pc = "viewMark" /\ old.thread \in ThreadIds
                                  /\ old.user \in Users
  BY DEF MarkThreadRead, At, TypeInv, TypeOK, Fits
<1>2. PICK new : new = [old EXCEPT !.pc = "viewList"]
  OBVIOUS
<1>3. new.pc = "viewList" /\ new.user = old.user /\ new.thread = old.thread
  BY <1>2 DEF Request
<1>4. req'[p] = new /\ \A q \in Procs \ {p} : req'[q] = req[q]
  BY <1>1, <1>2 DEF MarkThreadRead, Goto, TypeInv, TypeOK
<1> SUFFICES ASSUME NEW i \in Posts, NEW u \in Users, NEW t \in ThreadIds, NEW s \in Times,
                    posts[i].thread = t, posts[i].stamp = s, <<u, i>> \notin settled,
                    <<"thread", t>> \notin lost
             PROVE  Behind(u, t, s)' /\ Told(i, t, s)'
  BY DEF FollowInv, MarkThreadRead, Posts
<1>5. Behind(u, t, s) /\ Told(i, t, s)
  BY DEF FollowInv
<1>6. Told(i, t, s)'
  <2>1. Telling(i, t, s) => Telling(i, t, s)'
    BY <1>1, <1>4 DEF Telling, At
  <2>2. QED BY <1>5, <2>1 DEF Told, MarkThreadRead
<1>7. Behind(u, t, s)'
  <2>1. CASE u = old.user /\ t = old.thread
    BY <1>3, <1>4, <2>1 DEF Behind, Viewing, At
  <2>2. CASE ~(u = old.user /\ t = old.thread)
    <3>1. marks'[u][t] = marks[u][t]
      BY <1>1, <2>2 DEF MarkThreadRead, TypeInv, TypeOK, FollowingTypeOK
    <3>2. Viewing(u, t) => Viewing(u, t)'
      BY <1>1, <1>4 DEF Viewing, At
    <3>3. QED BY <1>5, <3>1, <3>2 DEF Behind
  <2>3. QED BY <2>1, <2>2
<1>8. QED BY <1>6, <1>7

\* A user who is sent the posts of a thread has seen them; one whose request is
\* cut off there may miss them.
LEMMA FollowList ==
    ASSUME TypeInv, FollowInv, NEW p \in Procs, At(p, "viewList"), Finish(p),
           UNCHANGED <<threads, posts, lost, marks>>,
           settled' = settled \cup {req[p].user} \X PostsOf(req[p].thread)
    PROVE  FollowInv'
<1>1. \A q \in Procs \ {p} : req'[q] = req[q]
  BY DEF Finish, TypeInv, TypeOK
<1> SUFFICES ASSUME NEW i \in Posts, NEW u \in Users, NEW t \in ThreadIds, NEW s \in Times,
                    posts[i].thread = t, posts[i].stamp = s, <<u, i>> \notin settled',
                    <<"thread", t>> \notin lost
             PROVE  Behind(u, t, s)' /\ Told(i, t, s)'
  BY DEF FollowInv, Posts
<1>2. <<u, i>> \notin settled /\ ~(u = req[p].user /\ t = req[p].thread)
  BY DEF PostsOf
<1>3. Behind(u, t, s) /\ Told(i, t, s)
  BY <1>2 DEF FollowInv
<1>4. Viewing(u, t) => Viewing(u, t)'
  BY <1>1, <1>2 DEF Viewing, At
<1>5. Telling(i, t, s) => Telling(i, t, s)'
  BY <1>1 DEF Telling, At
<1>6. QED BY <1>3, <1>4, <1>5 DEF Behind, Told

\* A post that is inserted is newer than the marks of those who are to be told,
\* and the reply is about to tell; an opening post needs not, unless the time of
\* the last post is older.
LEMMA FollowInsert ==
    ASSUME TypeInv, FollowInv, NEW p \in Procs, CreatePost(p)
    PROVE  FollowInv'
<1>1. PICK old \in Request(PCs) : /\ old = req[p] /\ old.pc \in {"opInsert", "insert"}
                                  /\ old.thread \in ThreadIds /\ old.at \in Times
  BY RequestFields DEF CreatePost, TypeInv, TypeOK, Fits
<1>2. PICK j \in PostIds :
        /\ j \notin Posts /\ Posts' = Posts \cup {j}
        /\ posts'[j].thread = old.thread /\ posts'[j].stamp = old.at
        /\ \A i \in Posts : posts'[i] = posts[i]
        /\ lost' = lost \cup NoThread(old.thread)
        /\ settled' = settled \cup Unannounced(p) \X {j}
        /\ IF At(p, "insert")
           THEN req' = [req EXCEPT ![p].pc = "lastPost", ![p].post = j]
           ELSE Finish(p)
  BY <1>1, PostInserted
<1>3. UNCHANGED <<threads, marks>>
  BY DEF CreatePost
<1>4. \A q \in Procs \ {p} : req'[q] = req[q]
  BY <1>2 DEF Finish, TypeInv, TypeOK
<1>5. \A q \in Procs : At(q, "lastPost") \/ At(q, "viewList") => req'[q] = req[q]
  BY <1>1, <1>4 DEF At
<1> SUFFICES ASSUME NEW i \in Posts', NEW u \in Users, NEW t \in ThreadIds, NEW s \in Times,
                    posts'[i].thread = t, posts'[i].stamp = s, <<u, i>> \notin settled',
                    <<"thread", t>> \notin lost'
             PROVE  Behind(u, t, s)' /\ Told(i, t, s)'
  BY DEF FollowInv
<1>6. CASE i \in Posts
  <2>1. Behind(u, t, s) /\ Told(i, t, s)
    BY <1>2, <1>6 DEF FollowInv
  <2>2. (Viewing(u, t) => Viewing(u, t)') /\ (Telling(i, t, s) => Telling(i, t, s)')
    BY <1>5 DEF Viewing, Telling, At
  <2>3. QED BY <1>3, <2>1, <2>2 DEF Behind, Told
<1>7. CASE i \notin Posts
  <2>1. i = j /\ t = old.thread /\ s = old.at /\ u \notin Unannounced(p) /\ t \in Threads
    BY <1>2, <1>7 DEF NoThread
  <2>2. /\ ~(marks[u][t] # None /\ marks[u][t] >= s)
        /\ ~(At(p, "opInsert") /\ threads[t].last < s)
    BY <1>1, <2>1 DEF Unannounced
  <2>3. Behind(u, t, s)'
    <3>1. marks[u][t] \in Times \cup {None}
      BY DEF TypeInv, TypeOK, FollowingTypeOK
    <3>2. marks[u][t] = None \/ marks[u][t] < s
      BY <2>2, <3>1, RequestsOK DEF Times
    <3>3. QED BY <1>3, <3>2 DEF Behind
  <2>4. Told(i, t, s)'
    <3>1. CASE At(p, "opInsert")
      <4>1. threads[t].last \in Times
        BY <1>3, <2>1 DEF Threads, TypeInv, TypeOK, ThreadRow
      <4>2. threads[t].last >= s
        BY <2>2, <3>1, <4>1, RequestsOK DEF Times
      <4>3. QED BY <1>3, <4>2 DEF Told
    <3>2. CASE At(p, "insert")
      <4>1. PICK new : new = [old EXCEPT !.pc = "lastPost", !.post = j]
        OBVIOUS
      <4>2. /\ new.pc = "lastPost" /\ new.post = j
            /\ new.thread = old.thread /\ new.at = old.at
        BY <4>1 DEF Request
      <4>3. req'[p] = new
        BY <1>1, <1>2, <3>2, <4>1 DEF TypeInv, TypeOK
      <4>4. Telling(i, t, s)'
        BY <2>1, <4>2, <4>3 DEF Telling, At
      <4>5. QED BY <4>4 DEF Told
    <3>3. QED BY <1>1, <3>1, <3>2 DEF At
  <2>5. QED BY <2>3, <2>4
<1>8. QED BY <1>6, <1>7

\* The reply tells its thread, or gives the post up.
LEMMA FollowTell ==
    ASSUME TypeInv, NothingLeftBehind, FollowInv, NEW p \in Procs, At(p, "lastPost"),
           \A q \in Procs \ {p} : req'[q] = req[q], UNCHANGED <<posts, lost, marks>>,
           \/ UpdateLastPost(p)
           \/ UNCHANGED threads /\ settled' = settled \cup Users \X {req[p].post}
    PROVE  FollowInv'
<1>1. PICK old \in Request(PCs) : /\ old = req[p] /\ old.pc = "lastPost" /\ old.at \in Times
                                  /\ old.thread \in ThreadIds
  BY RequestFields DEF At, TypeInv, TypeOK, Fits
<1> SUFFICES ASSUME NEW i \in Posts, NEW u \in Users, NEW t \in ThreadIds, NEW s \in Times,
                    posts[i].thread = t, posts[i].stamp = s, <<u, i>> \notin settled',
                    <<"thread", t>> \notin lost
             PROVE  Behind(u, t, s)' /\ Told(i, t, s)'
  BY DEF FollowInv, Posts
<1>2. <<u, i>> \notin settled /\ t \in Threads
  BY ThreadOfPost DEF UpdateLastPost
<1>3. Behind(u, t, s) /\ Told(i, t, s)
  BY <1>2 DEF FollowInv
<1>4. Behind(u, t, s)'
  <2>1. Viewing(u, t) => Viewing(u, t)'
    BY <1>1 DEF Viewing, At
  <2>2. QED BY <1>3, <2>1 DEF Behind
<1>5. CASE UpdateLastPost(p)
  <2>1. CASE t = old.thread
    <3>1. PICK row \in ThreadRow : row = threads[t]
      BY <1>2 DEF Threads, TypeInv, TypeOK
    <3>2. threads'[t] = [row EXCEPT !.last = old.at]
      BY <1>1, <1>2, <1>5, <2>1, <3>1 DEF UpdateLastPost
    <3>3. threads'[t].last = old.at
      BY <3>1, <3>2 DEF ThreadRow
    <3>4. ~(s > old.at)
      BY <1>1, <1>5, <2>1 DEF UpdateLastPost, PostsOf
    <3>5. QED BY <1>1, <1>4, <3>3, <3>4, RequestsOK DEF Told, Times
  <2>2. CASE t # old.thread
    <3>1. threads'[t] = threads[t]
      BY <1>1, <1>5, <2>2 DEF UpdateLastPost
    <3>2. Telling(i, t, s) => Telling(i, t, s)'
      BY <1>1, <2>2 DEF Telling, At
    <3>3. QED BY <1>3, <1>4, <3>1, <3>2 DEF Told
  <2>3. QED BY <2>1, <2>2
<1>6. CASE UNCHANGED threads /\ settled' = settled \cup Users \X {req[p].post}
  <2>1. i # req[p].post
    BY <1>6
  <2>2. Telling(i, t, s) => Telling(i, t, s)'
    BY <2>1 DEF Telling, At
  <2>3. QED BY <1>3, <1>4, <1>6, <2>2 DEF Told
<1>7. QED BY <1>5, <1>6


\* A request that is cut off, or goes on after a failure.
LEMMA FollowCutOff ==
    ASSUME TypeInv, NothingLeftBehind, FollowInv, NEW p \in Procs, LogAndGoOn(p) \/ Abort(p)
    PROVE  FollowInv'
<1>1. UNCHANGED <<threads, posts, lost, marks>> /\ \A q \in Procs \ {p} : req'[q] = req[q]
  BY UndoneTables DEF LogAndGoOn, Abort, Goto, Finish, TypeInv, TypeOK
<1>2. CASE At(p, "lastPost")
  <2>1. settled' = settled \cup Users \X {req[p].post}
    BY <1>2 DEF LogAndGoOn, Abort, Undone, At
  <2>2. QED BY <1>1, <1>2, <2>1, FollowTell
<1>3. CASE At(p, "viewList")
  <2>1. Finish(p) /\ settled' = settled \cup {req[p].user} \X PostsOf(req[p].thread)
    BY <1>3 DEF LogAndGoOn, Abort, Undone, At
  <2>2. QED BY <1>1, <1>3, <2>1, FollowList
<1>4. CASE ~At(p, "lastPost") /\ ~At(p, "viewList")
  BY <1>1, <1>4, UndoneTables, FollowStays DEF Posts
<1>5. QED BY <1>2, <1>3, <1>4

\* The steps of the other features tell and mark nothing.
LEMMA FollowOthers ==
    ASSUME TypeInv, FollowInv, NEW p \in Procs, UNCHANGED followingVars, lost \subseteq lost',
           \/ Reads(p) /\ UNCHANGED <<threads, posts>>
           \/ FeedbackWrites(p) \/ MessageWrites(p) \/ DeletePost(p)
    PROVE  FollowInv'
<1>1. ~At(p, "lastPost") /\ ~At(p, "viewList") /\ UNCHANGED threads
  BY DEF Reads, FeedbackWrites, MessageWrites, ReactRead, ReportRead, ReviewRead,
         ReplyRead, ViewRead, DiscardRead, DeleteMessage, RemovePostRead,
         DeleteThreadRead, ReactDelete, ReactInsert, CreateReport, ReviewRemove,
         ReviewReport, SendMessage, ViewMessage, MarkPMRead, Hide, DeletePost, Start, At
<1>2. PICK r \in Request(PCs) : req' = [req EXCEPT ![p] = r]
  BY StartStep, WriteStep DEF Writes
<1>3. \A q \in Procs : At(q, "lastPost") \/ At(q, "viewList") => req'[q] = req[q]
  BY <1>1, <1>2 DEF TypeInv, TypeOK
<1>4. \A i \in Posts' : /\ i \in Posts /\ posts'[i].thread = posts[i].thread
                        /\ posts'[i].stamp = posts[i].stamp
  <2>1. CASE UNCHANGED posts
    BY <2>1 DEF Posts
  <2>2. CASE DeletePost(p) \/ ReviewRemove(p)
    BY <2>2, RemovedStays DEF DeletePost, ReviewRemove
  <2>3. QED BY <2>1, <2>2
        DEF FeedbackWrites, ReactDelete, ReactInsert, CreateReport, ReviewReport,
            MessageWrites, SendMessage, ViewMessage, MarkPMRead, Hide
<1>5. QED BY <1>1, <1>3, <1>4, FollowStays DEF followingVars

LEMMA FollowStep ==
    ASSUME TypeInv, NothingLeftBehind, FollowInv, [Next]_vars
    PROVE  FollowInv'
<1>0. Next => lost \subseteq lost'
  BY LostStep
<1>1. CASE UNCHANGED vars
  BY <1>1, FollowStays DEF vars, baseVars, followingVars, Posts
<1>2. ASSUME NEW p \in Procs, FollowingWrites(p), lost \subseteq lost'
      PROVE  FollowInv'
  <2>1. CASE MarkThreadRead(p) \/ CreatePost(p)
    BY <1>2, <2>1, FollowMark, FollowInsert
  <2>2. CASE ListPosts(p)
    BY <2>2, FollowList DEF ListPosts
  <2>3. CASE UpdateLastPost(p)
    <3>1. \A q \in Procs \ {p} : req'[q] = req[q]
      BY <2>3 DEF UpdateLastPost, Goto, TypeInv, TypeOK
    <3>2. At(p, "lastPost") /\ UNCHANGED <<posts, lost, marks>>
      BY <2>3 DEF UpdateLastPost
    <3>3. QED BY <2>3, <3>1, <3>2, FollowTell
  <2>4. CASE \/ CreateThread(p) \/ CreatePostFails(p) \/ GetDraftByThread(p)
             \/ DeleteDraft(p) \/ SaveDraft(p)
    <3>1. (~At(p, "lastPost") /\ ~At(p, "viewList")) \/ UNCHANGED req
      BY <2>4 DEF CreateThread, CreatePostFails, GetDraftByThread, DeleteDraft, SaveDraft,
                  Start, At
    <3>2. PICK r \in Request(PCs) : req' = [req EXCEPT ![p] = r]
      BY <1>2, WriteStep DEF Writes
    <3>3. \A q \in Procs : At(q, "lastPost") \/ At(q, "viewList") => req'[q] = req[q]
      BY <3>1, <3>2 DEF TypeInv, TypeOK
    <3>4. UNCHANGED <<posts, marks, settled>>
      BY <2>4 DEF CreateThread, CreatePostFails, GetDraftByThread, DeleteDraft, SaveDraft
    <3>5. \A t \in Threads : threads'[t] = threads[t]
      <4>1. CASE CreateThread(p)
        <5>1. PICK t \in ThreadIds : NextKey(Threads, t)
                                     /\ threads' = [threads EXCEPT ![t] = [last |-> clock]]
          BY <4>1 DEF CreateThread
        <5>2. t \notin Threads
          BY <5>1 DEF NextKey, ThreadIds
        <5>3. QED BY <5>1, <5>2 DEF TypeInv, TypeOK, Threads
      <4>2. CASE ~CreateThread(p)
        BY <2>4, <4>2 DEF CreatePostFails, GetDraftByThread, DeleteDraft, SaveDraft
      <4>3. QED BY <4>1, <4>2
    <3>6. \A i \in Posts : <<"thread", posts[i].thread>> \notin lost'
                            => threads'[posts[i].thread] = threads[posts[i].thread]
      BY <1>2, <3>5, ThreadOfPost
    <3>7. QED BY <1>2, <3>3, <3>4, <3>6, FollowStays DEF Posts
  <2>5. QED BY <1>2, <2>1, <2>2, <2>3, <2>4 DEF FollowingWrites
<1>3. ASSUME NEW p \in Procs, DeleteAll(p), lost \subseteq lost'
      PROVE  FollowInv'
  <2>1. PICK t : t = req[p].thread
    OBVIOUS
  <2>2. /\ threads' = Without(threads, {t}) /\ posts' = Without(posts, PostsOf(t))
        /\ settled' = {pair \in settled : pair[2] \notin PostsOf(t)}
        /\ marks' = [u \in Users |-> [marks[u] EXCEPT ![t] = None]]
    BY <1>3, <2>1 DEF DeleteAll, DeleteThread, CascadeFollowing
  <2>3. \A i \in Posts' : i \in Posts /\ i \notin PostsOf(t) /\ posts'[i] = posts[i]
    BY <2>2 DEF Without, Posts, TypeInv, TypeOK
  <2>4. \A i \in Posts' : threads'[posts[i].thread] = threads[posts[i].thread]
    BY <2>2, <2>3 DEF Without, PostsOf, Posts, TypeInv, TypeOK, PostRow
  <2>5. \A i \in Posts', u \in Users : <<u, i>> \in settled => <<u, i>> \in settled'
    BY <2>2, <2>3
  <2>6. \A u \in Users, k \in ThreadIds : marks'[u][k] = marks[u][k] \/ marks'[u][k] = None
    BY <2>2 DEF TypeInv, TypeOK, FollowingTypeOK
  <2>7. \A q \in Procs : At(q, "lastPost") \/ At(q, "viewList") => req'[q] = req[q]
    BY <1>3 DEF DeleteAll, DeleteThread, Finish, At, TypeInv, TypeOK
  <2>8. QED BY <1>3, <2>3, <2>4, <2>5, <2>6, <2>7, FollowStays
<1>4. ASSUME NEW p \in Procs, DeleteThreadAlone(p), UNCHANGED followingVars
      PROVE  FollowInv'
  <2>1. PICK t : t = req[p].thread
    OBVIOUS
  <2>2. /\ threads' = Without(threads, {t}) /\ UNCHANGED <<posts, settled, marks>>
        /\ lost' = lost \cup {"thread"} \X ({t} \cap Threads)
    BY <1>4, <2>1 DEF DeleteThreadAlone, followingVars
  <2>3. \A k \in ThreadIds : <<"thread", k>> \notin lost' => threads'[k] = threads[k]
    BY <2>2 DEF Without, Threads, TypeInv, TypeOK
  <2>4. \A i \in Posts : posts[i].thread \in ThreadIds
    BY DEF Posts, TypeInv, TypeOK, PostRow
  <2>5. \A q \in Procs : At(q, "lastPost") \/ At(q, "viewList") => req'[q] = req[q]
    BY <1>4 DEF DeleteThreadAlone, Finish, At, TypeInv, TypeOK
  <2>6. QED BY <2>2, <2>3, <2>4, <2>5, FollowStays DEF Posts
<1>5. CASE Tick /\ UNCHANGED followingVars
  BY <1>5, FollowStays DEF Tick, followingVars, Posts
<1>6. CASE CleanupOldDrafts
  BY <1>6, FollowStays DEF CleanupOldDrafts, Posts
<1>7. CASE Next
  BY <1>0, <1>2, <1>3, <1>4, <1>5, <1>6, <1>7, FollowCutOff, FollowOthers, NextCases
<1>8. QED BY <1>1, <1>7

\* NewPostsAnnounced, for any number of users, threads and requests: a user who
\* viewed a thread before a reply, and was not shown it, sees it as unread.
THEOREM RepliesAreAnnounced == Spec => []NewPostsAnnounced
<1>1. Init => FollowInv
  BY DEF Init, BaseInit, FollowInv, Posts
<1>2. TypeInv /\ NothingLeftBehind /\ FollowInv /\ [Next]_vars => FollowInv'
  BY FollowStep
<1>3. TypeInv /\ FollowInv => NewPostsAnnounced
  BY FollowInvShows
<1>4. QED BY <1>1, <1>2, <1>3, TypeInvHolds, LeftHolds, PTL DEF Spec
=============================================================================
