---------------------------- MODULE MCAuditPager ----------------------------
(* Three kinds of entries and five filters, so that a filter may let        *)
(* through every entry, some in the middle, or be refused; no limit, one    *)
(* below, one equal to and one above the page size.                         *)
EXTENDS AuditPager

Entry(o, c, a, t) == [object |-> o, caller |-> c, actor |-> a, timestamp |-> t]

Filter(o, c, a, f, t) == [object |-> o, caller |-> c, actor |-> a, from |-> f, to |-> t]

MCEntries ==
    {Entry("o1", "ci", "t1", 3), Entry("o1", Nil, "t1", 1), Entry("o2", "ci", Nil, 2)}

MCFilters ==
    {Filter(Nil, Nil, Nil, Nil, Nil), Filter("o1", "ci", Nil, Nil, Nil),
     Filter(Nil, Nil, "t1", Nil, 2), Filter(Nil, Nil, Nil, 2, 3),
     Filter("bad id", Nil, Nil, Nil, Nil)}

MCLimits == {Nil, 1, 2, 3}
=============================================================================
