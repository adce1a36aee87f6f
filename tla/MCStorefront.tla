---------------------------- MODULE MCStorefront ----------------------------
(* Two seed users and one item, which every reply about recommendations    *)
(* may list or not.                                                        *)
EXTENDS Storefront

MCUsers == {"u1", "u2"}
MCGridItems == {"a"}
MCRailItems == {"a"}
=============================================================================
