---------------------------- MODULE Permissions ----------------------------
(***************************************************************************)
(* packages/core/src/permissions.ts: who may do what.  A role belongs to a *)
(* membership of one organization; every mutation asks this table first.   *)
(***************************************************************************)

BuyerRole == {"OWNER", "ADMIN", "BUYER", "APPROVER"}
SupplierRole == {"SUPPLIER_SALES", "SUPPLIER_OPS"}
Role == BuyerRole \cup SupplierRole \cup {"AEKOVERA_STAFF"}

Sourcing == {"catalog:search", "workspace:manage", "rfq:create", "rfq:manage",
             "cart:manage", "order:create", "sample:order", "message:send"}
Supplying == {"supplier:onboard", "profile:manage", "payout:view",
              "analytics:view", "message:send"}

PERMISSION_MATRIX(role) ==
    CASE role \in {"OWNER", "ADMIN"} -> Sourcing \cup {"order:approve", "analytics:view"}
      [] role = "BUYER" -> Sourcing
      [] role = "APPROVER" ->
           {"catalog:search", "order:approve", "analytics:view", "message:send"}
      [] role = "SUPPLIER_SALES" -> Supplying \cup {"listing:manage", "quote:create"}
      [] role = "SUPPLIER_OPS" -> Supplying \cup {"shipment:manage"}
      [] role = "AEKOVERA_STAFF" ->
           {"admin:access", "supplier:verify", "moderation:manage", "dispute:mediate",
            "placement:manage", "payout:settle", "payout:view", "analytics:view",
            "message:send"}

Can(role, permission) == permission \in PERMISSION_MATRIX(role)

=============================================================================
