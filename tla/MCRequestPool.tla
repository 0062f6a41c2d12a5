---------------------------- MODULE MCRequestPool ----------------------------
(* Two workers.  Peers that may fall silent: as many as workers next to as *)
(* many publications, one next to a change besides; as many next to a page *)
(* while a change runs, or one that sends its form.  Streams that may      *)
(* break: of a page while a publication runs, or a change, or one that     *)
(* sends its form.  A page that lags behind two changes.                   *)
EXTENDS RequestPool

CONSTANTS c1, c2, p1, p2, g1

Both == {Request("publication", p1), Request("publication", p2)}
Open == Request("events", g1)
Change(c) == Request("change", c)
Form == {Open, Request("submit", g1)}

Load(rs, d, s) == [send |-> rs, drops |-> d, silences |-> s]

MCLoads == {
    Load(Both, 0, 2),
    Load(Both \cup {Change(c1)}, 0, 1),
    Load({Open, Change(c1)}, 0, 2),
    Load(Form, 0, 2),
    Load({Open, Request("publication", p1)}, 1, 0),
    Load({Open, Change(c1)}, 1, 0),
    Load(Form, 1, 0),
    Load({Open, Change(c1), Change(c2)}, 0, 0)}
=============================================================================
