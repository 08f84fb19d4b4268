---------------------------- MODULE CampaignRules -----------------------------
(***************************************************************************)
(* r4_1: quality versions, test campaigns and the revisions of what a      *)
(* campaign selects.                                                       *)
(*                                                                         *)
(* Their names are chosen by the caller and kept in "data"; "by" is the    *)
(* campaign_key.  They carry no cursor.                                    *)
(***************************************************************************)
EXTENDS QualityRecords

CampaignKinds == {"version", "campaign", "selection"}

Version(name, predecessor)  == Record("version", [predecessor |-> predecessor], name, "none", "none", 0)
Campaign(name, version, key) == Record("campaign", [version |-> version], name, key, "none", 0)
Selection(name, campaign, supersedes) ==
    Record("selection", [campaign |-> campaign, supersedes |-> supersedes], name, "none", "none", 0)

Named(s, kind, name) == {i \in Of(s, kind) : s[i].data = name}

(* The line of a campaign.  Every revision becomes the current one; 0 is   *)
(* none.                                                                   *)
RevisionsOf(s, campaign) == {i \in Of(s, "selection") : s[i].on.campaign = campaign}

(* Fault: the first revision stays the current one, as it stays baseline.  *)
CurrentIsBaseline(s, campaign) ==
    LET line == RevisionsOf(s, campaign)
    IN  IF line = {} THEN 0 ELSE CHOOSE i \in line : \A j \in line : i <= j

CurrentSelection(s, campaign) ==
    LET line == RevisionsOf(s, campaign)
    IN  IF line = {} THEN 0 ELSE CHOOSE i \in line : \A j \in line : j <= i

(* Handler and reducer ask the same.                                       *)
CampaignMay(s, r) ==
    /\ Named(s, r.kind, r.data) = {}
    /\ CASE r.kind = "version"   -> r.on.predecessor = 0 \/ Is(s, r.on.predecessor, "version")
         [] r.kind = "campaign"  -> /\ Is(s, r.on.version, "version")
                                    /\ \A i \in Of(s, "campaign") : s[i].by # r.by
         [] r.kind = "selection" -> /\ Is(s, r.on.campaign, "campaign")
                                    /\ r.on.supersedes = CurrentSelection(s, r.on.campaign)

CampaignIdentity(r) == <<r.kind, r.data>>
=============================================================================
