---------------------------- MODULE MCSyncLedger ----------------------------
(***************************************************************************)
(* Instances of SyncLedger: the requests two devices may send.             *)
(***************************************************************************)
EXTENDS SyncLedger

CONSTANTS a, b, a1, a2, a3, b1, b2, b3, c1, c2, c3, d1, d2, d3,
          e1, e2, e3, f1, f2, f3, w1, topic, link, quiz, task, paper, p, q, rb, bad, pLinked

Op(id, dev, e, type, base, deps, payload) ==
  [id |-> id, device |-> dev, entity |-> e, type |-> type, base |-> base,
   deps |-> deps, payload |-> payload, res |-> None]
Resolve(op, conflict, choice, expected) ==
  [op EXCEPT !.res = [conflict |-> conflict, choice |-> choice, expected |-> expected]]

\* A topic with a quiz item that blocks its deletion and a link that follows
\* it, and a task with a resource its deletion detaches.
KindOf == (topic :> "topic") @@ (quiz :> "quiz_item") @@ (link :> "source_link")
            @@ (task :> "task") @@ (paper :> "resource")
TheKinds == [e \in Entity |-> KindOf[e]]
TheParents == [e \in Entity |-> CASE e \in {quiz, link} -> topic
                                [] e = paper -> task
                                [] OTHER -> None]
Same == [x \in Payload |-> x]
Detach == [x \in Payload |-> IF x = pLinked THEN p ELSE x]

\* One topic that device a and an old client b edit, with a conflict that has
\* two resolutions, and a deletion that is in conflict with the edits.
Clash == [op |-> f1, version |-> 2, payload |-> q]
EditRequests ==
  {Op(e1, a, topic, "create", 0, {}, p),
   Op(e2, a, topic, "update", 0, {e1}, q),
   Op(e3, a, topic, "delete", 1, {e2}, Empty),
   Op(f1, b, topic, "update", 1, {}, rb),
   Resolve(Op(f2, b, topic, "update", 2, {}, rb), Clash, "keep_local", 2),
   Resolve(Op(f3, b, topic, "update", 2, {}, q), Clash, "keep_remote", 2)}

\* What deletions reach; payload bad is refused by validation.
CascadeRequests ==
  {Op(a1, a, topic, "create", 0, {}, p),
   Op(a2, b, quiz, "create", 0, {}, p),
   Op(a3, a, quiz, "delete", 1, {}, Empty),
   Op(b1, b, link, "create", 0, {}, p),
   Op(b2, a, topic, "delete", 1, {}, Empty),
   Op(b3, b, topic, "update", 1, {}, bad)}

\* A task and a resource linked to it, with a deletion that meets an edit from
\* another tab, whose author accepts it.
DeletedTask == [op |-> d1, version |-> 2, payload |-> Empty]
LinkRequests ==
  {Op(c1, a, task, "create", 0, {}, pLinked),
   Op(c2, b, paper, "create", 0, {}, pLinked),
   Op(c3, a, task, "delete", 1, {}, Empty),
   Op(d1, a, task, "update", 1, {}, p),
   Op(d2, b, paper, "update", 1, {}, pLinked),
   Resolve(Op(d3, a, task, "delete", 2, {}, Empty), DeletedTask, "keep_remote", 2)}

AllRequests == EditRequests \cup CascadeRequests \cup LinkRequests
=============================================================================
