SPECIFICATION Spec
CONSTANTS
  Nil = Nil
  Home = "n1"
  Namespace = {"n1", "n2"}
  RouteName = {1, 2}
  Worlds <- MCWorlds
  Configs <- MCConfigs
  RouteSpecs <- MCRouteSpecs
  GatewaySpecs <- MCGatewaySpecs
  Grants <- MCGrants
  Services <- MCServices
  Secrets <- MCSecrets
  Requests <- MCRequests
  MaxUid = 2
INVARIANTS TypeOK QuietMeansCurrent PortsDoNotClash
PROPERTIES ForeignStatusKept ForeignObjectsUntouched EnvoyServesRequest TunnelReachesListener
CHECK_DEADLOCK FALSE
