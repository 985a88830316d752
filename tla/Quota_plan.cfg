\* Two enforcers, one request, up- and downgrades.
SPECIFICATION FairQuotaSpec
CONSTANTS
    MaxChecks = 2
    Servers = {s1, s2}
    Requests = {r1}
    Limits <- OneOrUnlimited
    MaxChanges = 2
    MaxLosses = 1
PROPERTIES
    
    UpgradeGivesBack
    
