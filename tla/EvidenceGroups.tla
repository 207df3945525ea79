--------------------------- MODULE EvidenceGroups ---------------------------
(***************************************************************************)
(* How the claim, timeline and thematic pipelines arrange the evidence of  *)
(* an answer: pipelines/claim.py, timeline_grouping.py and                 *)
(* thematic_grouping.py.                                                   *)
(*                                                                         *)
(* A group has a key, which is its group_id, and its members in order.     *)
(* Labels, summaries and titles of groups are text and are left out.       *)
(***************************************************************************)
EXTENDS RankFusion

CONSTANT Date   (* id -> the date of its work                              *)

DateKinds == {"known", "disputed", "unknown"}
Years == Nat \cup {None}

ASSUME DateAssumption == Date \in [Ids -> [kind : DateKinds, start : Years, end : Years]]

Group(key, members) == [key |-> key, members |-> members]
NonEmpty(groups) == Keep(groups, {g \in ToSet(groups) : g.members # <<>>})
Flatten(groups) == Joined([i \in DOMAIN groups |-> groups[i].members])

-----------------------------------------------------------------------------
(* Fault: what counts against the claim comes first.                       *)
counterFirst == <<"counter", "direct", "indirect", "context_only">>

(* Claim: one group per kind of support, in the order of _GROUP_SPECS.     *)
ClaimLabels == <<"direct", "indirect", "context_only", "counter">>

ClaimGroups(selected) ==
  NonEmpty([i \in 1..4 |-> Group(ClaimLabels[i],
                               Keep(selected, {c \in ToSet(selected) : c.label = ClaimLabels[i]}))])

(* _group_sort_key: an absent score is less than any other.                *)
VectorWorse(c, d) == c.vrank = 0 \/ (d.vrank # 0 /\ d.vrank < c.vrank)

SortsBefore(c, d) ==
  \/ c.rerank > d.rerank
  \/ c.rerank = d.rerank /\ c.fusion > d.fusion
  \/ c.rerank = d.rerank /\ c.fusion = d.fusion /\ c.vrank # d.vrank /\ VectorWorse(d, c)
  \/ c.rerank = d.rerank /\ c.fusion = d.fusion /\ c.vrank = d.vrank /\ c.id < d.id

(* _select_for_display                                                     *)
ForDisplay(candidates, counter) ==
  LET all == ToSet(candidates)
  IN Keep(InOrder([c \in all |-> {d \in all : SortsBefore(d, c)}]),
          {c \in all : c.label \in ToSet(ClaimLabels) /\ (c.label = "counter" => counter)})

(* _apply_page_size: the members of a trimmed group are those on the page. *)
TrimGroups(groups, page) ==
  NonEmpty([i \in DOMAIN groups |->
     Group(groups[i].key, Keep(groups[i].members,
                               {c \in ToSet(groups[i].members) : c.id \in IdSet(page)}))])

-----------------------------------------------------------------------------
(* Timeline: decades in order, then disputed, then undated.                *)
Year(date) == IF date.start # None THEN date.start ELSE date.end

Bucket(id) ==
  LET date == Date[id]
  IN IF date.kind = "disputed" THEN <<1, 0>>
     ELSE IF date.kind = "unknown" \/ Year(date) = None THEN <<2, 0>>
     ELSE <<0, Year(date) \div 10>>

YearKey(year) == IF year = None THEN <<1, 0>> ELSE <<0, year>>

(* _sort_within_bucket: by start, end and id, what is absent coming last.  *)
DatedBefore(c, d) ==
  LET s == YearKey(Date[c.id].start)  t == YearKey(Date[d.id].start)
      e == YearKey(Date[c.id].end)    f == YearKey(Date[d.id].end)
  IN \/ PairBefore(s, t)
     \/ s = t /\ PairBefore(e, f)
     \/ s = t /\ e = f /\ c.id < d.id

(* Fault: the evidence of a bucket stays in the order of relevance and the *)
(* buckets in the order in which they are met.                             *)
undated(evidence) ==
  [i \in DOMAIN evidence |-> Group(Bucket(evidence[i].id), <<evidence[i]>>)]

organize_timeline(evidence) ==
  LET keys == {Bucket(c.id) : c \in ToSet(evidence)}
      run == InOrder([key \in keys |-> {other \in keys : PairBefore(other, key)}])
      members(key) == {c \in ToSet(evidence) : Bucket(c.id) = key}
  IN [i \in DOMAIN run |->
        Group(run[i], InOrder([c \in members(run[i]) |-> {d \in members(run[i]) : DatedBefore(d, c)}]))]

-----------------------------------------------------------------------------
(* Thematic: clusters named by a model are made exclusive.  A cluster id   *)
(* is a name and a suffix, 1 if it has none; names are numbers in the      *)
(* order of the strings, and Reserved is other_related or blank.           *)
Reserved == 0
OtherRelated == <<Reserved, 1>>

(* Fault: what an earlier cluster has is given to a later one as well.     *)
anyCluster(themes, id) == TRUE

Unclaimed(themes, id) == \A i \in DOMAIN themes : id \notin IdSet(themes[i].members)

dedupe_cluster_id(name, taken) ==
  IF <<name, 1>> \notin taken THEN <<name, 1>>
  ELSE <<name, Min({n \in 2..(Cardinality(taken) + 2) : <<name, n>> \notin taken})>>

(* _unique_keep_order: where each id of a list is first.                   *)
FirstPlaces(ids) == {i \in DOMAIN ids : \A j \in 1..(i - 1) : ids[j] # ids[i]}

EvidenceOf(evidence, id) == CHOOSE c \in ToSet(evidence) : c.id = id

(* One assignment of the loop in assign_exclusively.                       *)
Assign(evidence, themes, cluster) ==
  LET valid == Ascending({i \in FirstPlaces(cluster.ids) :
                            cluster.ids[i] \in IdSet(evidence) /\ Unclaimed(themes, cluster.ids[i])})
      key == dedupe_cluster_id(cluster.name, {themes[i].key : i \in DOMAIN themes})
  IN IF cluster.name = Reserved \/ valid = <<>> THEN themes
     ELSE Append(themes, Group(key, [k \in DOMAIN valid |-> EvidenceOf(evidence, cluster.ids[valid[k]])]))

(* sort_theme_clusters: by best member, mean, size and id.                 *)
Best(g) == Max({c.fusion : c \in ToSet(g.members)})
Total(g) ==
  LET sum[n \in 0..Len(g.members)] == IF n = 0 THEN 0 ELSE sum[n - 1] + g.members[n].fusion
  IN sum[Len(g.members)]
ThemeBefore(g, h) ==
  LET mean(a, b) == Total(a) * Len(b.members)
  IN \/ Best(g) > Best(h)
     \/ Best(g) = Best(h) /\ mean(g, h) > mean(h, g)
     \/ Best(g) = Best(h) /\ mean(g, h) = mean(h, g) /\ Len(g.members) > Len(h.members)
     \/ /\ Best(g) = Best(h) /\ mean(g, h) = mean(h, g) /\ Len(g.members) = Len(h.members)
        /\ PairBefore(g.key, h.key)

assign_exclusively(evidence, clusters) ==
  LET themes[n \in 0..Len(clusters)] ==
        IF n = 0 THEN <<>> ELSE Assign(evidence, themes[n - 1], clusters[n])
  IN themes[Len(clusters)]

(* The groups of an answer, their members ordered (order_group_members):   *)
(* sorted themes, then what no theme claimed.                              *)
ThemeGroups(evidence, clusters) ==
  LET themes == assign_exclusively(evidence, clusters)
      all == ToSet(themes)
      sorted == InOrder([g \in all |-> {h \in all : ThemeBefore(h, g)}])
      leftover == Keep(evidence, {c \in ToSet(evidence) : Unclaimed(themes, c.id)})
      groups == sorted \o NonEmpty(<<Group(OtherRelated, leftover)>>)
  IN [i \in DOMAIN groups |-> Group(groups[i].key, Ordered(ToSet(groups[i].members)))]

=============================================================================
