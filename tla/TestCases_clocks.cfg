CONSTANTS
  SetupTimeout = 1
  DetailTimeout = 2
  DemandTimeout = 1
  ChargingTimeout = 1
  StopChargingTimeout = 1
  StateBTimeout = 1
  TcpTimeout = 2
  OngoingTimeout = 1
  MaxOnItsWay = 1
  MaxB = 2
  NoStateB = {"session_setup_007", "service_detail_payment_selection_012", "current_demand_007", "cable_check_006"}
  OneStateB = {"service_discovery_008", "service_detail_payment_selection_003", "cablecheck_007", "charge_parameter_discovery_002", "service_detail_011", "service_detail_013", "current_demand_002", "current_demand_005", "authorization_009", "precharge_006", "welding_session_stop_001"}
  LaterRequests = {4, 10, 12, 14, 17}
  MaxTime = 6
  Epoch = 100
  Tests = {"authorization_009"}
SPECIFICATION Spec
CHECK_DEADLOCK FALSE
INVARIANTS
  OngoingFailIsDeserved
