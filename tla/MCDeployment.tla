---------------------------- MODULE MCDeployment ----------------------------
(* Deployment for TLC.  The installed release is 1.0.0, which answers      *)
(* /latest as long as only prereleases of 1.1.0 are published.  rc.2 and   *)
(* rc.10 differ in the order of texts and of numbers; 1.1.0 has come       *)
(* without a checksum.                                                     *)
EXTENDS Deployment

CONSTANTS small, repo, img, lbl

Text(n) == [numeric |-> FALSE, rank |-> n]
Number(n) == [numeric |-> TRUE, rank |-> n]

Release(base, pre, sha) ==
    [version |-> [base |-> base, pre |-> pre], prerelease |-> pre # <<>>,
     asset |-> TRUE, sha256 |-> sha]

MCReleases ==
    << Release(100, <<>>, TRUE),
       Release(110, <<Text(1), Number(2)>>, TRUE),
       Release(110, <<Text(1), Number(10)>>, TRUE),
       Release(110, <<>>, FALSE) >>

MCConfig(version, min, max) ==
    [version |-> version, scope |-> {repo}, bases |-> <<img>>,
     pools |-> << [name |-> small, labels |-> {lbl}, min_warm |-> min,
                   max |-> max, slot_base |-> 2, base |-> NoBase] >>]

MCPrompted == { MCConfig(1, 0, 1) }
MCOldConfigs == { MCConfig(0, 1, 1) }

(* --max 2, and --max 0, which no configuration allows. *)
MCScales ==
    { [pool |-> small, min |-> Keep, max |-> 2],
      [pool |-> small, min |-> Keep, max |-> 0] }
=============================================================================
