---- MODULE MCItem ----
(***************************************************************************)
(* Instances for TLC of what reads one item: its proxy, the limiter that   *)
(* proxies share, and the two decoders of what an application answers.     *)
(* Proxy and limiter meet only in Reserve, which one offers and the other  *)
(* waits for; the decoders share nothing.  A behaviour is one of the four. *)
(***************************************************************************)
EXTENDS ItemProxy, Limiter, MenuTree, Pixmaps

VARIABLE part

\* A menu with nothing in it, for the behaviours that decode none.
Empty == [parent |-> <<0>>, id |-> PlainIds(1), icon |-> NoIcons(1), junk |-> {}]

ItemInit ==
    /\ part \in {"proxy", "limiter", "menu", "pixmaps"}
    /\ PXInit /\ LInit /\ PixInit
    /\ TreeInit
    /\ part # "menu" => layout = Empty

ItemNext ==
    /\ part' = part
    /\ \/ part = "proxy" /\ PXNext /\ UNCHANGED <<lvars, treeVars, pixVars>>
       \/ part = "limiter" /\ LNext /\ UNCHANGED <<pxvars, treeVars, pixVars>>
       \/ part = "menu" /\ TreeNext /\ UNCHANGED <<pxvars, lvars, pixVars>>
       \/ part = "pixmaps" /\ PixNext /\ UNCHANGED <<pxvars, lvars, treeVars>>

\* PXFairness, for the behaviours in which the proxy takes part.
ItemFairness ==
    /\ WF_pxvars(part = "proxy" /\ Starting) /\ WF_pxvars(part = "proxy" /\ Pumping)
    /\ WF_pxvars(part = "proxy" /\ Looping) /\ WF_pxvars(part = "proxy" /\ Closing)
    /\ WF_pxvars(part = "proxy" /\ (Answer \/ TimedOut \/ CallFails))
    /\ SF_pxvars(part = "proxy" /\ LoopStop) /\ SF_pxvars(part = "proxy" /\ PumpStop)
    /\ SF_pxvars(part = "proxy" /\ Answer) /\ SF_pxvars(part = "proxy" /\ CallRefused)

ItemSpec == ItemInit /\ [][ItemNext]_<<pxvars, lvars, treeVars, pixVars, part>> /\ ItemFairness

\* ReadsConverge, of the behaviours in which the proxy takes part.
ProxyConverges == part = "proxy" => ReadsConverge

====
