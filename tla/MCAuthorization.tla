--------------------------- MODULE MCAuthorization ---------------------------
(* A space s, a profile p with its operator o, and a second profile q. *)
EXTENDS Authorization
CONSTANTS s, p, o, q, w, x
MCDid == {s, p, o, q}
MCHome == [d \in MCDid |-> IF d = o THEN p ELSE d]
Whole == Unbounded
Early == [not_before |-> None, expiration |-> 1]
Late == [not_before |-> 2, expiration |-> None]
Middle == [not_before |-> 1, expiration |-> 2]
Cert(i, a, sub, com, pol, r) ==
    [issuer |-> i, audience |-> a, subject |-> sub, command |-> com, policy |-> pol, range |-> r]
MCImports ==
    {Cert(s, p, s, <<w>>, {}, Early),
     Cert(s, q, None, <<>>, {x}, Middle), Cert(q, p, s, <<>>, {}, Whole),
     Cert(p, o, None, <<>>, {}, Late), Cert(p, o, s, <<w>>, {x}, Whole),
     Cert(o, p, None, <<>>, {}, Whole)}
Access(sub, com, par) == [subject |-> sub, command |-> com, parameters |-> par]
Claim(d, a, t) == [principal |-> d, access |-> a, duration |-> t]
MCClaims ==
    {Claim(s, Access(s, <<>>, {}), Whole), Claim(p, Access(None, <<>>, {}), Whole),
     Claim(p, Access(s, <<>>, {}), Whole), Claim(q, Access(s, <<w>>, {x}), Middle)}
        \cup {Claim(o, Access(s, <<w>>, {x}), t) : t \in {Whole, Middle}}
=============================================================================
