---------------------------- MODULE LegacyShares ----------------------------
(***************************************************************************)
(* Sharing, viewing and deleting files: dealfile_cgi.c (share, del, pv),   *)
(* dealsharefile_cgi.c (pv, cancel, save) and the ranking list of          *)
(* sharefiles_cgi.c.  A file is public when FILE_PUBLIC_ZSET holds it;     *)
(* MySQL is asked when Redis does not.                                     *)
(***************************************************************************)
EXTENDS LegacyTables

SharesOf(f) == {r \in shares : r.file = f}
ShareOf(c) == {r \in SharesOf(req[c].file) : r.user = req[c].user}
Listed == {f \in Files : ranking[f] # {}}

(***************************************************************************)
(* rop_zset_exit asks ZLEXCOUNT for the range from the member to itself.   *)
(* Redis defines the answer when all scores are equal; with scores that    *)
(* differ a member may be missed or counted with others, as elements are   *)
(* ordered by score first.  The callers take a count above one for an      *)
(* error.                                                                  *)
(***************************************************************************)
Exists(f) ==
    IF f \notin Listed THEN {"no"}
    ELSE IF \A g \in Listed : ranking[g] = ranking[f] THEN {"yes"}
    ELSE {"no", "yes", "error"}

\* ZADD and ZREM, HSET and HDEL: Redis may refuse, which most handlers ignore.
Rank(f, score) ==
    /\ \/ ranking' = [ranking EXCEPT ![f] = score] /\ UNCHANGED faults
       \/ Fault /\ UNCHANGED ranking
    /\ UNCHANGED names /\ OnlyPublic
Name(N) ==
    /\ \/ names' = N /\ UNCHANGED faults
       \/ Fault /\ UNCHANGED names
    /\ UNCHANGED ranking /\ OnlyPublic

\* ZINCRBY creates the member it does not find.
Bumped(f) == IF f \in Listed THEN {n + 1 : n \in ranking[f]} ELSE {1}

---------------------------------------------------------------------------
(* share_file *)

ShareExists(c) ==
    /\ At(c, "ShareExists")
    /\ \E e \in Exists(req[c].file) :
        IF e = "no" THEN GoTo(c, "ShareFind") ELSE Ends(c)
    /\ OnlyReq

\* Mutant of ShareFind: what Redis does not know is not shared.
ShareUnknown(c) ==
    /\ At(c, "ShareFind")
    /\ GoTo(c, "ShareMark")
    /\ OnlyReq

ShareFind(c) ==
    /\ At(c, "ShareFind")
    /\ IF SharesOf(req[c].file) = {}
       THEN GoTo(c, "ShareMark") /\ OnlyReq
       ELSE Ends(c) /\ Rank(req[c].file, {0})

\* mysql_affected_rows is 1 when the relation is there and was not shared.
ShareMark(c) ==
    /\ At(c, "ShareMark")
    /\ IF \E r \in relation[Key(c)] : ~r.shared
       THEN /\ relation' = [relation EXCEPT ![Key(c)] =
                                {[r EXCEPT !.shared = TRUE] : r \in @}]
            /\ GoTo(c, "ShareInsert")
       ELSE Ends(c) /\ UNCHANGED relation
    /\ UNCHANGED <<info, owned>> /\ OnlyFiles

ShareInsert(c) ==
    /\ At(c, "ShareInsert")
    /\ shares' = shares \cup {[user |-> req[c].user, file |-> req[c].file,
                               token |-> req[c].no, views |-> 0]}
    /\ GoTo(c, "ShareReadTotal")
    /\ UNCHANGED total /\ OnlyShares

ShareReadTotal(c) ==
    /\ At(c, "ShareReadTotal")
    /\ Reads(c, "ShareWriteTotal", total)
    /\ OnlyReq

\* The unique key refuses a row that another handler has inserted.
ShareWriteTotal(c) ==
    /\ At(c, "ShareWriteTotal")
    /\ total' = CountedUp(total, req[c].read)
    /\ IF req[c].read = {} /\ total # {} THEN Ends(c) ELSE GoTo(c, "ShareRank")
    /\ UNCHANGED shares /\ OnlyShares

ShareRank(c) ==
    /\ At(c, "ShareRank")
    /\ GoTo(c, "ShareName")
    /\ Rank(req[c].file, {0})

ShareName(c) ==
    /\ At(c, "ShareName")
    /\ Ends(c)
    /\ Name(names \cup {req[c].file})

\* When a SELECT fails the handler runs it again in place of the statement
\* that was to write, and goes on.
Share(c) ==
    \/ ShareExists(c) \/ ShareFind(c) \/ ShareMark(c) \/ ShareInsert(c)
    \/ ShareReadTotal(c) \/ ShareWriteTotal(c) \/ ShareRank(c) \/ ShareName(c)
    \/ Misread(c, "ShareFind", "ShareMark")
    \/ Misread(c, "ShareReadTotal", "ShareRank")

---------------------------------------------------------------------------
(* del_file *)

DelExists(c) ==
    /\ At(c, "DelExists")
    /\ \/ /\ "yes" \in Exists(req[c].file)
          /\ req' = [req EXCEPT ![c].step = "DelShare", ![c].after = "DelUnrank"]
       \/ /\ "no" \in Exists(req[c].file)
          /\ req' = [req EXCEPT ![c].step = "DelStatus",
                                ![c].after = "DelReadOwned"]
       \/ "error" \in Exists(req[c].file) /\ Ends(c)
    /\ OnlyReq

DelStatus(c) ==
    /\ At(c, "DelStatus")
    /\ IF \E r \in relation[Key(c)] : r.shared
       THEN GoTo(c, "DelShare") ELSE GoTo(c, "DelReadOwned")
    /\ OnlyReq

DelShare(c) ==
    /\ At(c, "DelShare")
    /\ shares' = shares \ ShareOf(c)
    /\ GoTo(c, "DelReadTotal")
    /\ UNCHANGED total /\ OnlyShares

DelReadTotal(c) ==
    /\ At(c, "DelReadTotal")
    /\ IF total = {} THEN Ends(c) ELSE Reads(c, "DelWriteTotal", total)
    /\ OnlyReq

DelWriteTotal(c) ==
    /\ At(c, "DelWriteTotal")
    /\ total' = IF total = {} THEN {} ELSE {n - 1 : n \in req[c].read}
    /\ Joins(c)
    /\ UNCHANGED shares /\ OnlyShares

DelUnrank(c) ==
    /\ At(c, "DelUnrank")
    /\ GoTo(c, "DelUnname")
    /\ Rank(req[c].file, {})

DelUnname(c) ==
    /\ At(c, "DelUnname")
    /\ GoTo(c, "DelReadOwned")
    /\ Name(names \ {req[c].file})

\* The first read of the transaction; its snapshot is not locked.
DelReadOwned(c) ==
    /\ At(c, "DelReadOwned")
    /\ IF owned[req[c].user] = {}
       THEN Ends(c) ELSE Reads(c, "DelRelation", owned[req[c].user])
    /\ OnlyReq

(***************************************************************************)
(* The rest of the transaction commits as one step, with the delete task   *)
(* of the knowledge queue; it rolls back when the relation is gone.  A     *)
(* count that was read as zero is not written.                             *)
(***************************************************************************)
DelRelation(c) ==
    /\ At(c, "DelRelation")
    /\ IF Owns(c)
       THEN /\ relation' = [relation EXCEPT ![Key(c)] = {}]
            /\ owned' = [owned EXCEPT ![req[c].user] =
                            IF @ = {} \/ 0 \in req[c].read THEN @
                            ELSE {n - 1 : n \in req[c].read}]
            /\ GoTo(c, "DelReadCount")
       ELSE Ends(c) /\ UNCHANGED <<relation, owned>>
    /\ UNCHANGED info /\ OnlyFiles

DelReadCount(c) ==
    /\ At(c, "DelReadCount")
    /\ IF info[req[c].file] = {}
       THEN Ends(c)
       ELSE Reads(c, "DelWriteCount", Counts(info[req[c].file]))
    /\ OnlyReq

\* Mutant of Less: a count of zero is counted down as well.
LessAlways(n) == n - 1

Less(n) == IF n > 0 THEN n - 1 ELSE 0

DelWriteCount(c) ==
    /\ At(c, "DelWriteCount")
    /\ LET n == Less(Only(req[c].read))
       IN  /\ info' = [info EXCEPT ![req[c].file] = SetCount(@, n)]
           /\ IF n = 0 THEN GoTo(c, "DelReadBlob") ELSE Ends(c)
    /\ UNCHANGED <<relation, owned>> /\ OnlyFiles

DelReadBlob(c) ==
    /\ At(c, "DelReadBlob")
    /\ LET rows == info[req[c].file]
       IN  IF rows = {} THEN Ends(c)
           ELSE Reads(c, "DelInfo", {r.blob : r \in rows})
    /\ OnlyReq

RemoveInfo(c, from, to) ==
    /\ At(c, from)
    /\ info' = [info EXCEPT ![req[c].file] = {}]
    /\ req' = [req EXCEPT ![c].step = to]
    /\ UNCHANGED <<relation, owned>> /\ OnlyFiles

RemoveBlob(c, from, Then) ==
    /\ At(c, from)
    /\ stored' = {b \in stored : b.file # req[c].file
                                 \/ b.no \notin req[c].read}
    /\ Then
    /\ UNCHANGED <<fileTables, shareTables, pictureTables, public, arriving,
                   faults>>

\* Mutant of DelRemoves: the blob goes first.
DelBlobFirst(c) ==
    \/ RemoveBlob(c, "DelInfo", req' = [req EXCEPT ![c].step = "DelBlob"])
    \/ RemoveInfo(c, "DelBlob", "DelDone")

DelRemoves(c) ==
    \/ RemoveInfo(c, "DelInfo", "DelBlob")
    \/ RemoveBlob(c, "DelBlob", Ends(c))

Delete(c) ==
    \/ DelExists(c) \/ DelStatus(c) \/ DelShare(c)
    \/ DelReadTotal(c) \/ DelWriteTotal(c) \/ DelUnrank(c) \/ DelUnname(c)
    \/ DelReadOwned(c) \/ DelRelation(c)
    \/ DelReadCount(c) \/ DelWriteCount(c) \/ DelReadBlob(c) \/ DelRemoves(c)

---------------------------------------------------------------------------
(* pv_file of dealfile_cgi.c: the owner's own views overwrite the share's. *)

ViewRead(c) ==
    /\ At(c, "ViewRead")
    /\ IF Owns(c) THEN Reads(c, "ViewOwn", relation[Key(c)]) ELSE Ends(c)
    /\ OnlyReq

Seen(c) == Only(req[c].read)

ViewOwn(c) ==
    /\ At(c, "ViewOwn")
    /\ relation' = [relation EXCEPT ![Key(c)] =
                        {[r EXCEPT !.views = Seen(c).views + 1] : r \in @}]
    /\ IF Seen(c).shared
       THEN req' = [req EXCEPT ![c].step = "ViewShare"] ELSE Ends(c)
    /\ UNCHANGED <<info, owned>> /\ OnlyFiles

ViewShare(c) ==
    /\ At(c, "ViewShare")
    /\ shares' = (shares \ ShareOf(c)) \cup
                    {[r EXCEPT !.views = Seen(c).views + 1] : r \in ShareOf(c)}
    /\ GoTo(c, "ViewRank")
    /\ UNCHANGED total /\ OnlyShares

ViewRank(c) ==
    /\ At(c, "ViewRank")
    /\ Ends(c)
    /\ Rank(req[c].file, Bumped(req[c].file))

View(c) == ViewRead(c) \/ ViewOwn(c) \/ ViewShare(c) \/ ViewRank(c)

---------------------------------------------------------------------------
(* pv_file of dealsharefile_cgi.c: a public file was downloaded. *)

VisitRead(c) ==
    /\ At(c, "VisitRead")
    /\ IF SharesOf(req[c].file) = {}
       THEN Ends(c)
       ELSE \E r \in SharesOf(req[c].file) : Reads(c, "VisitWrite", {r.views})
    /\ OnlyReq

VisitWrite(c) ==
    /\ At(c, "VisitWrite")
    /\ shares' = {IF r.file = req[c].file
                  THEN [r EXCEPT !.views = Seen(c) + 1] ELSE r : r \in shares}
    /\ req' = [req EXCEPT ![c].step = "VisitExists"]
    /\ UNCHANGED total /\ OnlyShares

VisitExists(c) ==
    /\ At(c, "VisitExists")
    /\ \E e \in Exists(req[c].file) :
        IF e = "error" THEN Ends(c)
        ELSE req' = [req EXCEPT ![c].step =
                         IF e = "yes" THEN "VisitBump" ELSE "VisitRank"]
    /\ OnlyReq

VisitBump(c) ==
    /\ At(c, "VisitBump")
    /\ Ends(c)
    /\ Rank(req[c].file, Bumped(req[c].file))

VisitRank(c) ==
    /\ At(c, "VisitRank")
    /\ GoTo(c, "ShareName")
    /\ Rank(req[c].file, {Seen(c) + 1})

Visit(c) ==
    \/ VisitRead(c) \/ VisitWrite(c) \/ VisitExists(c)
    \/ VisitBump(c) \/ VisitRank(c) \/ ShareName(c)

---------------------------------------------------------------------------
(* cancel_share_file *)

CancelMark(c) ==
    /\ At(c, "CancelMark")
    /\ relation' = [relation EXCEPT ![Key(c)] =
                        {[r EXCEPT !.shared = FALSE] : r \in @}]
    /\ GoTo(c, "CancelReadTotal")
    /\ UNCHANGED <<info, owned>> /\ OnlyFiles

CancelReadTotal(c) ==
    /\ At(c, "CancelReadTotal")
    /\ IF total = {} THEN Ends(c) ELSE Reads(c, "CancelWriteTotal", total)
    /\ OnlyReq

CancelWriteTotal(c) ==
    /\ At(c, "CancelWriteTotal")
    /\ total' = IF total = {} \/ Seen(c) = 1 THEN {} ELSE {Seen(c) - 1}
    /\ GoTo(c, "CancelShare")
    /\ UNCHANGED shares /\ OnlyShares

CancelShare(c) ==
    /\ At(c, "CancelShare")
    /\ shares' = shares \ ShareOf(c)
    /\ GoTo(c, "CancelUnrank")
    /\ UNCHANGED total /\ OnlyShares

\* ZREM of a member that is absent answers 0, which is a failure here.
CancelUnrank(c) ==
    /\ At(c, "CancelUnrank")
    /\ IF req[c].file \in Listed THEN GoTo(c, "CancelName") ELSE Ends(c)
    /\ ranking' = [ranking EXCEPT ![req[c].file] = {}]
    /\ UNCHANGED <<names, faults>> /\ OnlyPublic

CancelName(c) ==
    /\ At(c, "CancelName")
    /\ Ends(c)
    /\ names' = names \ {req[c].file}
    /\ UNCHANGED <<ranking, faults>> /\ OnlyPublic

Cancel(c) ==
    \/ CancelMark(c) \/ CancelReadTotal(c) \/ CancelWriteTotal(c)
    \/ CancelShare(c) \/ CancelUnrank(c) \/ CancelName(c)

---------------------------------------------------------------------------
(* save_file *)

SaveOwned(c) ==
    /\ At(c, "SaveOwned")
    /\ IF Owns(c) THEN Ends(c) ELSE GoTo(c, "SaveRead")
    /\ OnlyReq

SaveRead(c) ==
    /\ At(c, "SaveRead")
    /\ IF info[req[c].file] = {}
       THEN Ends(c) ELSE Reads(c, "BindCount", Counts(info[req[c].file]))
    /\ OnlyReq

Save(c) ==
    \/ SaveOwned(c) \/ SaveRead(c) \/ Bind(c)
    \/ Misread(c, "SaveOwned", "SaveRead")

---------------------------------------------------------------------------
(* get_ranking_filelist: the ranking is rebuilt from MySQL when the number *)
(* of its members is not the public total.                                 *)

RankTotal(c) ==
    /\ At(c, "RankTotal")
    /\ IF total \in {{}, {0}} THEN Ends(c) ELSE GoTo(c, "RankSql")
    /\ OnlyReq

RankSql(c) ==
    /\ At(c, "RankSql")
    /\ Reads(c, "RankCard", IF total = {} THEN {0} ELSE total)
    /\ OnlyReq

RankCard(c) ==
    /\ At(c, "RankCard")
    /\ IF Cardinality(Listed) = Seen(c) THEN Ends(c) ELSE GoTo(c, "RankClear")
    /\ OnlyReq

\* Mutant of RankClear: the new rows are added to the old members.
RankKeep(c) ==
    /\ At(c, "RankClear")
    /\ GoTo(c, "RankClearNames")
    /\ UNCHANGED <<ranking, names, faults>> /\ OnlyPublic

RankClear(c) ==
    /\ At(c, "RankClear")
    /\ GoTo(c, "RankClearNames")
    /\ \/ ranking' = [f \in Files |-> {}] /\ UNCHANGED faults
       \/ Fault /\ UNCHANGED ranking
    /\ UNCHANGED names /\ OnlyPublic

RankClearNames(c) ==
    /\ At(c, "RankClearNames")
    /\ GoTo(c, "RankRead")
    /\ Name({})

RankRead(c) ==
    /\ At(c, "RankRead")
    /\ IF shares = {} THEN Ends(c) ELSE Reads(c, "RankAdd", shares)
    /\ OnlyReq

\* The rows arrive in descending order of their views.
Topmost(rows) == {r \in rows : \A s \in rows : s.views <= r.views}

RankAdd(c) ==
    /\ At(c, "RankAdd")
    /\ \E r \in Topmost(req[c].read) :
        /\ req' = [req EXCEPT ![c].step = "RankName", ![c].file = r.file,
                              ![c].read = @ \ {r}]
        /\ Rank(r.file, {r.views})

RankName(c) ==
    /\ At(c, "RankName")
    /\ IF req[c].read = {} THEN Ends(c)
       ELSE req' = [req EXCEPT ![c].step = "RankAdd"]
    /\ Name(names \cup {req[c].file})

RankList(c) ==
    \/ RankTotal(c) \/ RankSql(c) \/ RankCard(c) \/ RankClear(c) \/ RankClearNames(c)
    \/ RankRead(c) \/ RankAdd(c) \/ RankName(c)

---------------------------------------------------------------------------

DealFile ==
    LET c == "dealfile"
    IN  Accept(c, {"ShareExists", "DelExists", "ViewRead"})
        \/ Share(c) \/ Delete(c) \/ View(c)

DealShareFile ==
    LET c == "dealsharefile"
    IN  Accept(c, {"VisitRead", "CancelMark", "SaveOwned"})
        \/ Visit(c) \/ Cancel(c) \/ Save(c)

ShareFiles ==
    LET c == "sharefiles"
    IN  Accept(c, {"RankTotal"}) \/ RankList(c)
=============================================================================
