------------------------------- MODULE Storage -------------------------------
(***************************************************************************)
(* The storage plugin: `disk usage`.  The mount table is read once; every  *)
(* mount point is then asked for its counters by its path, so that a mount *)
(* that is gone, or hidden by a later one, answers with the counters of    *)
(* whatever stands there.                                                  *)
(*                                                                         *)
(* A mount is its point (a sequence of names), its source and whether its  *)
(* type is one of the pseudo types; host.used says of every source how     *)
(* full it is, in percent, or that it cannot be asked.                     *)
(***************************************************************************)
EXTENDS Collector, FiniteSetsExt

Root == <<>>
Points == {Root, <<"a">>, <<"a", "b">>}
Sources == {"sda", "sdb", "tmpfs"}
Pseudo(m) == m.source = "tmpfs"
M(point, source) == [point |-> point, source |-> source]

\* Mount tables in the order of the mounts; later ones hide earlier ones.
Tables == {<<M(Root, "sda")>>, <<M(Root, "sda"), M(<<"a">>, "sdb")>>,
           <<M(Root, "sda"), M(<<"a">>, "sda"), M(<<"a", "b">>, "sdb")>>,
           <<M(Root, "tmpfs")>>, <<M(Root, "sda"), M(<<"a", "b">>, "sdb"), M(<<"a">>, "tmpfs")>>,
           <<M(Root, "sda"), M(<<"a">>, "sdb"), M(<<"a">>, "sda")>>}

Warning == 80       \* disk_warning and disk_critical
Critical == 90
Broken == 101       \* statfs fails

\* The counters of a filesystem of 100 blocks: used, and free to others.
Percents == {0, 79, 80, 90, Broken}

boundedPercent(part, total) == IF total = 0 THEN 0 ELSE IF part >= total THEN 100 ELSE (part * 100) \div total

----------------------------------------------------------------------------
\* A path is at a point or below it.
contains(point, path) == Len(point) <= Len(path) /\ \A i \in DOMAIN point : path[i] = point[i]

\* Of a table, the positions of the mounts that are chosen.
realMounts(table) == {i \in DOMAIN table : ~ Pseudo(table[i])}

containingMount(path, table, mounts) ==
  LET at == {i \in mounts : contains(table[i].point, path)}
      deepest == {i \in at : \A j \in at : Len(table[j].point) <= Len(table[i].point)}
  IN IF at = {} THEN {} ELSE {Min(deepest)}

\* The first mount of each point.
Selected(table, mounts) ==
  {table[i] : i \in {j \in mounts : \A k \in mounts : k < j => table[k].point # table[j].point}}

\* What stands at a point: the last mount on the way to it; a mount above
\* hides what was mounted below before.
Standing(table, point) ==
  LET on == {i \in DOMAIN table : contains(table[i].point, point)}
  IN IF on = {} THEN "none" ELSE table[Max(on)].source

Init == Starts({"all", "a", "a/b"}, [table : Tables, used : [Sources -> Percents]],
               LAMBDA h : [table |-> h.table, settled |-> TRUE],
               [mounts |-> {}, items |-> {}])

Configure ==
  /\ pc = "start"
  /\ \/ Answer(Failure("arguments"))
     \/ ~ Live /\ Answer(Failure("timeout"))
     \/ Live /\ Answer(Failure("configuration"))
     \/ Live /\ GoTo("table")
  /\ UNCHANGED got /\ Others

Path == [c \in {"all", "a", "a/b"} |-> CASE c = "all" -> Root [] c = "a" -> <<"a">> [] OTHER -> <<"a", "b">>]

ReadTable ==
  /\ pc = "table"
  /\ LET mounts == realMounts(host.table)
         chosen == IF cmd = "all" THEN mounts ELSE containingMount(Path[cmd], host.table, mounts)
     IN IF cmd # "all" /\ chosen = {}
        THEN Answer(Failure("general")) /\ UNCHANGED got
        ELSE got' = [got EXCEPT !.mounts = Selected(host.table, chosen)] /\ GoTo("stat")
  /\ Others

\* The mount table or the path cannot be read.
TableFails ==
  /\ pc = "table" /\ Answer(Failure("general")) /\ UNCHANGED got /\ Others

Stat ==
  /\ pc = "stat"
  /\ \E m \in got.mounts :
       LET there == Standing(host.table, m.point)
           used  == IF there = "none" THEN Broken ELSE host.used[there]
       IN got' = [mounts |-> got.mounts \ {m},
                  items |-> got.items \cup {[mount |-> m, asked |-> there,
                    percent |-> IF used = Broken THEN Broken ELSE boundedPercent(used, 100)]}]
  /\ GoTo("stat") /\ Others

----------------------------------------------------------------------------
\* The loop over the filesystems, in the order of their mount points.
Before(p, q) == contains(p, q) /\ p # q
Orders(items) ==
  {s \in [1..Cardinality(items) -> items] :
     /\ \A x \in items : \E i \in DOMAIN s : s[i] = x
     /\ \A i \in DOMAIN s : \A j \in 1..(i - 1) : ~ Before(s[i].mount.point, s[j].mount.point)}

CheckStatus(item) ==
  CASE item.percent = Broken    -> "skipped"
    [] item.percent # Broken /\ item.percent >= Critical -> "critical"
    [] item.percent # Broken /\ item.percent < Critical /\ item.percent >= Warning -> "warning"
    [] OTHER -> "pass"

\* mutant: a filesystem that fails hides a critical one before it
Weigh_Overrides(status, item) ==
  CASE CheckStatus(item) = "skipped"  -> "partial"
    [] CheckStatus(item) = "critical" -> "critical"
    [] CheckStatus(item) = "warning" /\ status = "pass" -> "warning"
    [] OTHER -> status

Weigh(status, item) ==
  CASE CheckStatus(item) = "skipped" /\ status # "critical" -> "partial"
    [] CheckStatus(item) = "critical" -> "critical"
    [] CheckStatus(item) = "warning" /\ status = "pass" -> "warning"
    [] OTHER -> status

\* weighed(order)[n]: after the first n of them.
weighed(order) ==
  LET w[n \in 0..Len(order)] == IF n = 0 THEN "pass" ELSE Weigh(w[n - 1], order[n])
  IN w

Status(order) == weighed(order)[Len(order)]

Report ==
  /\ pc = "stat" /\ got.mounts = {}
  /\ \E order \in Orders(got.items) :
       Answer(Result(Status(order),
                     {Chk(i.mount.point, CheckStatus(i)) : i \in got.items}, got.items,
                     IF \E i \in got.items : i.percent = Broken THEN {"statfs_failed"} ELSE {}))
  /\ UNCHANGED got /\ Others

\* Somebody mounts or unmounts.
Change ==
  \E t \in Tables :
    /\ pc = "stat" /\ t # host.table
    /\ Changes([host EXCEPT !.table = t], [hist EXCEPT !.settled = FALSE])

Step == Configure \/ ReadTable \/ TableFails \/ Stat \/ Report
Next == Step \/ Change \/ Deadline

----------------------------------------------------------------------------
\* The status is the worst that any filesystem gives, critical before partial
\* before warning, although the loop weighs them one by one in the order of
\* their mount points (plugin.go:116-139).
StatusIsWorst ==
  reply.exit = "ok" =>
    LET has(s) == \E i \in reply.data : CheckStatus(i) = s
    IN reply.status = CASE has("critical") -> "critical"
                        [] ~ has("critical") /\ has("skipped") -> "partial"
                        [] ~ has("critical") /\ ~ has("skipped") /\ has("warning") -> "warning"
                        [] OTHER -> "pass"

\* Without a path every mount point that does not have a pseudo filesystem
\* at its first mount is reported; with one, the filesystem the path is on,
\* unless that is a pseudo filesystem.
NothingLost ==
  reply.exit = "ok" /\ hist.settled =>
    IF cmd = "all"
    THEN \A i \in DOMAIN hist.table : ~ Pseudo(hist.table[i]) =>
           \E r \in reply.data : r.mount.point = hist.table[i].point
    ELSE Standing(hist.table, Path[cmd]) = "tmpfs" \/
         \E r \in reply.data : r.asked = Standing(hist.table, Path[cmd])
=============================================================================
